---- MODULE Spec2Model ----
(***************************************************************************)
(* Course-prerequisite planning service: the graph database contents, the  *)
(* domain services that read it (schedule optimizer, degree planner,       *)
(* graduation paths, prerequisite checks) and the responses they return.   *)
(***************************************************************************)
EXTENDS Integers, Sequences, FiniteSets, TLC

(***************************************************************************)
(* Bounds of the model.                                                    *)
(***************************************************************************)
\* largest number of PRE_REQUIRES relationships in the graph
MaxEdges == 3
\* largest number of HAS_COMPLETED relationships of the modelled student
MaxCompleted == 1

(***************************************************************************)
(* Universe of codes.  Codes lists the course codes in alphabetical order, *)
(* so that Python's sorted() on codes is the order of Codes.               *)
(***************************************************************************)
Codes == <<"CS 101", "CS 401", "CS101", "CS102", "CS103", "CS104", "CS105", "CS106",
          "CS107", "CS108", "CS109", "CS110", "CS111", "CS112">>
\* the codes the requests of the small specifications ask about
AllCodes == {"CS101", "CS102", "CS103", "CS104"}
\* the catalog of the specifications that seed three Course nodes; CS104 is
\* then a code without a node
SmallCatalog == {"CS101", "CS102", "CS103"}
\* the one student the model seeds, and an id nobody has
TheStudent == "S001"
NoStudent == "S999"
TheDegree == "CS"

\* Python's None against a value: an absent result is the empty sequence, a
\* present one the one-element sequence holding it
None == <<>>
Some(v) == <<v>>

\* position of a code in alphabetical order
Rank(c) == CHOOSE i \in 1..Len(Codes) : Codes[i] = c

\* Python sorted() over a collection of distinct course codes
sorted(S) == SelectSeq(Codes, LAMBDA c : c \in S)

Range(s) == {s[i] : i \in 1..Len(s)}

\* every listing of the elements of S (an iteration order Python or the
\* database does not fix)
Perms(S) == {p \in [1..Cardinality(S) -> S] : Range(p) = S}

\* subsets of S with at most n elements
SubsetsUpTo(S, n) == {T \in SUBSET S : Cardinality(T) <= n}

RECURSIVE SumSeq(_)
SumSeq(s) == IF s = <<>> THEN 0 ELSE Head(s) + SumSeq(Tail(s))

(***************************************************************************)
(* State: the graph database, and the last request served with its result. *)
(***************************************************************************)
VARIABLES
    courses,       \* Course nodes, by code
    preRequires,   \* PRE_REQUIRES relationships <<p, c>>: (p)-[:PRE_REQUIRES]->(c)
    students,      \* Student nodes: [key |-> identity property, sid |-> value]
    hasCompleted,  \* HAS_COMPLETED relationships <<student node, course>>
    credits,       \* Course.credits, 0 when the property is not set
    offeredIn,     \* OFFERED_IN relationships <<course, semester id>>
    requiredFor,   \* REQUIRED_FOR relationships <<course, degree>>
    enrolledIn,    \* ENROLLED_IN relationships <<student node, degree>>
    copies,        \* how many copies of each node and relationship are stored
    props,         \* node properties written by SET: <<node, property>> to value
    request,       \* the call being served: [op |-> ..., ...parameters]
    calls,         \* the service functions the call has invoked
    response,      \* what it returned
    script         \* the seeding script last started: its input, the statements
                   \* it has yet to send, and how it ended

vars == <<courses, preRequires, students, hasCompleted, credits, offeredIn,
          requiredFor, enrolledIn, copies, props, request, calls, response, script>>

db == <<courses, preRequires, students, hasCompleted, credits, offeredIn,
        requiredFor, enrolledIn, copies, props>>

\* the nodes and relationships the other variables describe, as the keys of
\* copies: the label or type first, then the identifying values
GraphKeys ==
    {<<"Course", c>> : c \in courses}
    \cup {<<"PRE_REQUIRES", e[1], e[2]>> : e \in preRequires}
    \cup {<<"Student", st.key, st.sid>> : st \in students}
    \cup {<<"HAS_COMPLETED", e[1].key, e[1].sid, e[2]>> : e \in hasCompleted}
    \cup {<<"OFFERED_IN", e[1], e[2][1], e[2][2]>> : e \in offeredIn}
    \cup {<<"REQUIRED_FOR", e[1], e[2]>> : e \in requiredFor}
    \cup {<<"Degree", e[2]>> : e \in requiredFor}
    \cup {<<"ENROLLED_IN", e[1].key, e[1].sid, e[2]>> : e \in enrolledIn}
    \cup {<<"Degree", e[2]>> : e \in enrolledIn}
    \cup {<<"Semester", e[2][1], e[2][2]>> : e \in offeredIn}

\* a graph the MERGE statements of the seeding scripts built: one copy each
StoredOnce == [k \in GraphKeys |-> 1]

\* the course importer names a course it creates after its code
NamedCourses == [x \in {<<<<"Course", c>>, "name">> : c \in courses} |-> x[1][2]]

\* Student nodes created by import_students (keyed by student_id) and by the
\* sample-student step of create_semesters_and_offerings (keyed by id)
ImportedStudent == [key |-> "student_id", sid |-> TheStudent]
SampleStudent == [key |-> "id", sid |-> TheStudent]

\* no call is being served
NoRequest == [op |-> "none"]

\* no seeding script has been started
NoScript ==
    [op |-> "none", input |-> <<>>, pending |-> <<>>, status |-> "done",
     raised |-> "none", calls |-> {}, committed |-> 0, runs |-> 0,
     left |-> [copies |-> <<>>, props |-> <<>>], first |-> TRUE]
Idle == request = NoRequest

\* the result is handed to the caller and the call's frame is gone
Reply ==
    /\ ~Idle
    /\ request' = NoRequest
    /\ calls' = {}
    /\ response' = NoRequest
    /\ UNCHANGED <<db, script>>

(***************************************************************************)
(* Semester nodes, as create_semesters_and_offerings writes them.  An id   *)
(* "FALL_2024" is the pair <<"FALL", 2024>>; ids compare as the strings do *)
(* (character by character: "FALL_..." sorts before "SPRING_...", and two  *)
(* ids of one term compare by their four-digit year).                      *)
(***************************************************************************)
SeedFirstYear == 2024
SeedYears == 4

SemesterNodes ==
    UNION {{[id |-> <<"FALL", SeedFirstYear + y>>, year |-> SeedFirstYear + y,
             term |-> "Fall", order |-> y * 2],
            [id |-> <<"SPRING", SeedFirstYear + y + 1>>, year |-> SeedFirstYear + y + 1,
             term |-> "Spring", order |-> y * 2 + 1]} : y \in 0..(SeedYears - 1)}

SemesterIds == {s.id : s \in SemesterNodes}

TermPrefixRank(p) == IF p = "FALL" THEN 1 ELSE 2

\* a >= b on semester id strings
SemIdGeq(a, b) ==
    \/ TermPrefixRank(a[1]) > TermPrefixRank(b[1])
    \/ a[1] = b[1] /\ a[2] >= b[2]

\* OFFERED_IN as the level heuristic derives it: a course of level 400 or
\* more (fallOnly) is offered in the Fall semesters, any other in all
SeededOfferings(fallOnly) ==
    {<<c, s.id>> : c \in courses, s \in {t \in SemesterNodes : t.term = "Fall"}}
    \cup {<<c, s.id>> : c \in courses \ fallOnly, s \in SemesterNodes}

\* ORDER BY s.order: order values are distinct integers from 0 to MaxOrder
MaxOrder == 2 * SeedYears - 1
RECURSIVE OrderFrom(_, _)
OrderFrom(S, o) ==
    IF o > MaxOrder THEN <<>>
    ELSE LET here == {s \in S : s.order = o}
         IN  (IF here = {} THEN <<>> ELSE <<CHOOSE s \in here : TRUE>>)
             \o OrderFrom(S, o + 1)
OrderByOrder(S) == OrderFrom(S, 0)

Min(a, b) == IF a <= b THEN a ELSE b

(***************************************************************************)
(* Schedule optimizer service.                                             *)
(***************************************************************************)
DefaultCredits == 3
MinCoursesPerSemester == 1
MaxCoursesPerSemester == 8
MinCreditsPerSemester == 6
MaxCreditsPerSemester == 24
MinTargetSemesters == 1
MaxTargetSemesters == 12

\* _get_student_info: the codes the student keyed by property id has completed
\* (no such student: an empty list)
get_student_info(student_id) ==
    {c \in courses : <<[key |-> "id", sid |-> student_id], c>> \in hasCompleted
                     /\ [key |-> "id", sid |-> student_id] \in students}

\* _get_all_courses_with_prereqs: per course its credits (3 when unset) and
\* the codes at the far end of its outgoing PRE_REQUIRES relationships
get_all_courses_with_prereqs ==
    [c \in courses |->
        [credits |-> IF credits[c] = 0 THEN DefaultCredits ELSE credits[c],
         prerequisites |-> {p \in courses : <<c, p>> \in preRequires}]]

\* _get_semester_offerings: the first num_semesters semesters, by order, whose
\* id is >= start_semester, each with the codes offered in it
get_semester_offerings(start_semester, num_semesters) ==
    LET matching == {s \in SemesterNodes : SemIdGeq(s.id, start_semester)}
        ordered == OrderByOrder(matching)
        limited == SubSeq(ordered, 1, Min(num_semesters, Len(ordered)))
    IN  [k \in 1..Len(limited) |->
            [id |-> limited[k].id, order |-> limited[k].order,
             term |-> limited[k].term,
             courses |-> {c \in courses : <<c, limited[k].id>> \in offeredIn}]]

\* the prerequisites of a remaining course that count: not completed and
\* themselves remaining
uncompleted_prereqs(c, keys, data, completed) ==
    {p \in data[c].prerequisites : p \notin completed /\ p \in Range(keys)}

\* _build_prereq_graph: prerequisite -> the remaining courses that depend on it
build_prereq_graph(keys, data, completed) ==
    [p \in Range(keys) |->
        {c \in Range(keys) : p \in uncompleted_prereqs(c, keys, data, completed)}]

\* the while loop of _topological_sort; a set is iterated in no fixed order,
\* so the dependents that reach in-degree 0 are enqueued in any order
RECURSIVE KahnRuns(_, _, _, _)
KahnRuns(graph, queue, sorted_courses, in_degree) ==
    IF queue = <<>> THEN {sorted_courses}
    ELSE LET course == Head(queue)
             lowered == [d \in DOMAIN in_degree |->
                            IF d \in graph[course] THEN in_degree[d] - 1
                            ELSE in_degree[d]]
             freed == {d \in graph[course] : lowered[d] = 0}
         IN  UNION {KahnRuns(graph, Tail(queue) \o p,
                             Append(sorted_courses, course), lowered)
                    : p \in Perms(freed)}

\* _topological_sort without the leftover courses appended
topological_sort_dequeued_only(graph, keys, data, completed) ==
    LET in_degree == [c \in Range(keys) |->
                        Cardinality(uncompleted_prereqs(c, keys, data, completed))]
        queue == SelectSeq(keys, LAMBDA c : in_degree[c] = 0)
    IN  KahnRuns(graph, queue, <<>>, in_degree)

\* _topological_sort: every list Kahn's algorithm can return, the courses it
\* could not dequeue appended in any order
topological_sort(graph, keys, data, completed) ==
    LET in_degree == [c \in Range(keys) |->
                        Cardinality(uncompleted_prereqs(c, keys, data, completed))]
        queue == SelectSeq(keys, LAMBDA c : in_degree[c] = 0)
    IN  UNION {IF Len(s) # Len(keys)
               THEN {s \o r : r \in Perms(Range(keys) \ Range(s))}
               ELSE {s}
               : s \in KahnRuns(graph, queue, <<>>, in_degree)}

\* courses_to_consider without the courses_taken test
courses_to_consider_untracked(sorted_courses, data, semester, completed, courses_taken) ==
    SelectSeq(sorted_courses,
              LAMBDA c : /\ c \in semester.courses
                         /\ \A p \in data[c].prerequisites :
                                p \in courses_taken \/ p \in completed)

\* the candidates of one semester, in sorted order
courses_to_consider(sorted_courses, data, semester, completed, courses_taken) ==
    SelectSeq(sorted_courses,
              LAMBDA c : /\ c \notin courses_taken
                         /\ c \in semester.courses
                         /\ \A p \in data[c].prerequisites :
                                p \in courses_taken \/ p \in completed)

\* the greedy fill testing the credits so far, not the credits after adding
RECURSIVE FillSemesterCreditsSoFar(_, _, _, _, _)
FillSemesterCreditsSoFar(cands, data, constraints, semester_courses, semester_credits) ==
    IF cands = <<>> \/ Len(semester_courses) >= constraints.max_courses_per_semester
    THEN [courses |-> semester_courses, total_credits |-> semester_credits]
    ELSE LET course_code == Head(cands)
             cr == data[course_code].credits
         IN  IF semester_credits > constraints.max_credits_per_semester
             THEN FillSemesterCreditsSoFar(Tail(cands), data, constraints,
                                           semester_courses, semester_credits)
             ELSE FillSemesterCreditsSoFar(Tail(cands), data, constraints,
                               Append(semester_courses,
                                      [course_code |-> course_code, credits |-> cr,
                                       prerequisites |-> data[course_code].prerequisites]),
                               semester_credits + cr)

\* "Add courses up to constraints": the greedy fill of one semester
RECURSIVE FillSemester(_, _, _, _, _)
FillSemester(cands, data, constraints, semester_courses, semester_credits) ==
    IF cands = <<>> \/ Len(semester_courses) >= constraints.max_courses_per_semester
    THEN [courses |-> semester_courses, total_credits |-> semester_credits]
    ELSE LET course_code == Head(cands)
             cr == data[course_code].credits
         IN  IF semester_credits + cr > constraints.max_credits_per_semester
             THEN FillSemester(Tail(cands), data, constraints,
                               semester_courses, semester_credits)
             ELSE FillSemester(Tail(cands), data, constraints,
                               Append(semester_courses,
                                      [course_code |-> course_code, credits |-> cr,
                                       prerequisites |-> data[course_code].prerequisites]),
                               semester_credits + cr)

\* _assign_courses_to_semesters
RECURSIVE AssignFrom(_, _, _, _, _, _, _)
AssignFrom(semesters, sorted_courses, data, constraints, completed, courses_taken, schedule) ==
    IF semesters = <<>> THEN schedule
    ELSE LET semester == Head(semesters)
             cands == courses_to_consider(sorted_courses, data, semester,
                                          completed, courses_taken)
             filled == FillSemester(cands, data, constraints, <<>>, 0)
         IN  AssignFrom(Tail(semesters), sorted_courses, data, constraints, completed,
                        courses_taken \cup {filled.courses[i].course_code
                                            : i \in 1..Len(filled.courses)},
                        Append(schedule,
                               [semester_id |-> semester.id,
                                courses |-> filled.courses,
                                total_courses |-> Len(filled.courses),
                                total_credits |-> filled.total_credits]))

assign_courses_to_semesters(sorted_courses, data, semesters, constraints, completed) ==
    AssignFrom(semesters, sorted_courses, data, constraints, completed, completed, <<>>)

\* _build_response
build_response(student_id, schedule, completed) ==
    [student_id |-> student_id,
     schedule |-> schedule,
     total_semesters |-> Len(schedule),
     total_courses |-> SumSeq([k \in 1..Len(schedule) |-> schedule[k].total_courses]),
     completed_courses |-> completed,
     warnings |->
        (IF schedule = <<>> THEN <<"No semesters available for scheduling">> ELSE <<>>)
        \o (IF \E k \in 1..Len(schedule) : schedule[k].total_courses = 0
            THEN <<"Empty semesters">> ELSE <<>>)]

\* optimize_schedule, for one order of the catalog rows and one outcome of the sort
optimize_schedule(student_id, constraints, catalog, sorted_courses) ==
    LET completed_courses == get_student_info(student_id)
        all_courses == get_all_courses_with_prereqs
        keys == SelectSeq(catalog, LAMBDA c : c \notin completed_courses)
        semester_offerings == get_semester_offerings(constraints.start_semester,
                                                     constraints.target_semesters)
        schedule == assign_courses_to_semesters(sorted_courses, all_courses,
                                                semester_offerings, constraints,
                                                completed_courses)
    IN  build_response(student_id, schedule, completed_courses)

\* the sorted lists step 6 of optimize_schedule can hand to step 7
sorted_lists(student_id, catalog) ==
    LET completed_courses == get_student_info(student_id)
        all_courses == get_all_courses_with_prereqs
        keys == SelectSeq(catalog, LAMBDA c : c \notin completed_courses)
        prereq_graph == build_prereq_graph(keys, all_courses, completed_courses)
    IN  topological_sort(prereq_graph, keys, all_courses, completed_courses)

\* the request parameters the model draws (within the ranges the route accepts)
CourseCaps == {MinCoursesPerSemester, 2}
CreditCaps == {MinCreditsPerSemester, 7}
TargetChoices == {3}
StartChoices == {<<"FALL", 2024>>}
CreditChoices == {0, 4}

ConstraintChoices ==
    [max_courses_per_semester : CourseCaps,
     max_credits_per_semester : CreditCaps,
     target_semesters : TargetChoices,
     start_semester : StartChoices]

\* the orders in which MATCH (c:Course) can return the catalog rows
CatalogOrders == Perms(courses)

\* the steps optimize_schedule runs, whatever the data
OptimizeCalls ==
    {"_get_student_info", "_get_all_courses_with_prereqs", "_get_semester_offerings",
     "_build_prereq_graph", "_topological_sort", "_assign_courses_to_semesters",
     "_build_response"}

\* GET /api/students/{student_id}/schedule/optimize
OptimizeSchedule ==
    /\ Idle
    /\ \E student_id \in {TheStudent}, catalog \in CatalogOrders :
      \E sorted_courses \in sorted_lists(student_id, catalog) :
       \E constraints \in ConstraintChoices :
        /\ request' = [op |-> "optimize_schedule", student_id |-> student_id,
                       constraints |-> constraints]
        /\ calls' = OptimizeCalls
        /\ response' = optimize_schedule(student_id, constraints, catalog, sorted_courses)
        /\ UNCHANGED <<db, script>>

InitOpt ==
    /\ courses = SmallCatalog
    /\ preRequires \in SubsetsUpTo(courses \X courses, MaxEdges)
    /\ students \in {{}, {SampleStudent}}
    /\ hasCompleted \in {{<<SampleStudent, c>> : c \in T}
                         : T \in IF students = {} THEN {{}}
                                 ELSE SubsetsUpTo(courses, MaxCompleted)}
    /\ credits \in [courses -> CreditChoices]
    /\ \E fallOnly \in SubsetsUpTo(courses, 1) : offeredIn = SeededOfferings(fallOnly)
    /\ requiredFor = {}
    /\ enrolledIn = {}
    /\ copies = StoredOnce
    /\ props = NamedCourses
    /\ request = NoRequest
    /\ calls = {}
    /\ response = NoRequest
    /\ script = NoScript

NextOpt == OptimizeSchedule \/ Reply

SpecOpt == InitOpt /\ [][NextOpt]_vars

(***************************************************************************)
(* Degree planner service.                                                 *)
(***************************************************************************)
\* get_degree_requirements: the codes with REQUIRED_FOR into the degree
get_degree_requirements(degree_id) ==
    {c \in courses : <<c, degree_id>> \in requiredFor}

\* get_completed_courses: the codes the student keyed by student_id completed
get_completed_courses(student_id) ==
    {c \in courses : /\ [key |-> "student_id", sid |-> student_id] \in students
                     /\ <<[key |-> "student_id", sid |-> student_id], c>> \in hasCompleted}

\* get_direct_prereqs read against the direction the importer writes
get_direct_prereqs_outgoing(course) ==
    {p \in courses : <<course, p>> \in preRequires}

\* get_direct_prereqs: MATCH (p:Course)-[:PRE_REQUIRES]->(c:Course {code: $course})
get_direct_prereqs(course) ==
    {p \in courses : <<p, course>> \in preRequires}

\* the while loop of degree_topological_sort giving up on a cycle by
\* returning the levels found so far
RECURSIVE LevelsFromPartial(_, _, _)
LevelsFromPartial(graph, remaining, sequence) ==
    IF remaining = {} THEN Some(sequence)
    ELSE LET available == {c \in remaining : graph[c] \cap remaining = {}}
         IN  IF available = {} THEN Some(sequence)
             ELSE LevelsFromPartial(graph, remaining \ available,
                                    Append(sequence, sorted(available)))

\* the while loop of degree_topological_sort
RECURSIVE LevelsFrom(_, _, _)
LevelsFrom(graph, remaining, sequence) ==
    IF remaining = {} THEN Some(sequence)
    ELSE LET available == {c \in remaining : graph[c] \cap remaining = {}}
         IN  IF available = {} THEN None
             ELSE LevelsFrom(graph, remaining \ available,
                             Append(sequence, sorted(available)))

\* degree_topological_sort(courses), courses a list of codes
degree_topological_sort(course_list) ==
    LET graph == [c \in Range(course_list) |-> get_direct_prereqs(c)]
    IN  LevelsFrom(graph, Range(course_list), <<>>)

CycleWarning == "Cycle detected in degree requirements"

\* plan_degree
plan_degree(student_id, degree_id) ==
    LET required == get_degree_requirements(degree_id)
        completed == get_completed_courses(student_id)
        missing == sorted(required \ completed)
        ordered == degree_topological_sort(missing)
    IN  IF missing = <<>>
        THEN [student_id |-> student_id, degree_id |-> degree_id,
              remaining_courses |-> <<>>, recommended_sequence |-> Some(<<>>)]
        ELSE IF ordered = None
        THEN [student_id |-> student_id, degree_id |-> degree_id,
              remaining_courses |-> missing, recommended_sequence |-> None,
              warning |-> CycleWarning]
        ELSE [student_id |-> student_id, degree_id |-> degree_id,
              remaining_courses |-> missing, recommended_sequence |-> ordered]

plan_degree_calls(student_id, degree_id) ==
    {"get_degree_requirements", "get_completed_courses"}
    \cup (IF get_degree_requirements(degree_id) \ get_completed_courses(student_id) = {}
          THEN {} ELSE {"degree_topological_sort", "get_direct_prereqs"})

(***************************************************************************)
(* Graduation paths service.                                               *)
(***************************************************************************)
\* build_graph: a dict, keys in the order of the list, each with the set of
\* its direct prerequisites (in the list or not)
build_graph(course_list) ==
    [keys |-> course_list,
     pre |-> [c \in Range(course_list) |-> get_direct_prereqs(c)]]

\* the nodes dfs() places at one recursion level, in dict order, ignoring
\* their prerequisites
placeable_any(graph, visited) ==
    SelectSeq(graph.keys, LAMBDA node : node \notin visited)

\* the nodes dfs() places at one recursion level, in dict order
placeable(graph, visited) ==
    SelectSeq(graph.keys,
              LAMBDA node : node \notin visited /\ graph.pre[node] \subseteq visited)

\* dfs(): the orderings one call appends to results, in order
RECURSIVE dfs(_, _, _)
RECURSIVE dfs_over(_, _, _, _)
dfs(graph, visited, order) ==
    LET nodes == placeable(graph, visited)
    IN  IF nodes = <<>> THEN <<order>>
        ELSE dfs_over(graph, nodes, visited, order)
dfs_over(graph, nodes, visited, order) ==
    IF nodes = <<>> THEN <<>>
    ELSE dfs(graph, visited \cup {Head(nodes)}, Append(order, Head(nodes)))
         \o dfs_over(graph, Tail(nodes), visited, order)

\* all_topological_orders
all_topological_orders(graph) == dfs(graph, {}, <<>>)

\* the degrees MATCH (s:Student {student_id: $sid})-[:ENROLLED_IN]->(d:Degree) finds
student_degrees(student_id) ==
    {d \in {TheDegree} :
        /\ [key |-> "student_id", sid |-> student_id] \in students
        /\ <<[key |-> "student_id", sid |-> student_id], d>> \in enrolledIn}

AlreadyGraduated == <<<<"Already graduated">>>>

\* generate_graduation_paths without the early return for nothing missing
generate_graduation_paths_no_sentinel(student_id) ==
    LET degree_result == student_degrees(student_id)
        degree_id == CHOOSE d \in degree_result : TRUE
        missing == sorted(get_degree_requirements(degree_id)
                          \ get_completed_courses(student_id))
    IN  IF degree_result = {} THEN [error |-> "Student not found"]
        ELSE [student_id |-> student_id, degree_id |-> degree_id,
              missing_courses |-> missing,
              paths |-> all_topological_orders(build_graph(missing))]

\* generate_graduation_paths
generate_graduation_paths(student_id) ==
    LET degree_result == student_degrees(student_id)
        degree_id == CHOOSE d \in degree_result : TRUE
        missing == sorted(get_degree_requirements(degree_id)
                          \ get_completed_courses(student_id))
    IN  IF degree_result = {} THEN [error |-> "Student not found"]
        ELSE IF missing = <<>>
        THEN [student_id |-> student_id, degree_id |-> degree_id,
              paths |-> AlreadyGraduated]
        ELSE [student_id |-> student_id, degree_id |-> degree_id,
              missing_courses |-> missing,
              paths |-> all_topological_orders(build_graph(missing))]

generate_graduation_paths_calls(student_id) ==
    {"client.query"}
    \cup (IF "error" \in DOMAIN generate_graduation_paths(student_id) THEN {}
          ELSE {"get_degree_requirements", "get_completed_courses"})
    \cup (IF "missing_courses" \in DOMAIN generate_graduation_paths(student_id)
          THEN {"build_graph", "get_direct_prereqs", "all_topological_orders"}
          ELSE {})

\* the lists of distinct codes a caller can pass
CourseLists == UNION {Perms(T) : T \in SUBSET courses}

StudentIds == {TheStudent, NoStudent}

\* GET /api/students/{student_id}/plan/sequence?target=
PlanDegree ==
    /\ Idle
    /\ \E student_id \in StudentIds, degree_id \in {TheDegree} :
        /\ request' = [op |-> "plan_degree", student_id |-> student_id,
                       degree_id |-> degree_id]
        /\ calls' = plan_degree_calls(student_id, degree_id)
        /\ response' = plan_degree(student_id, degree_id)
    /\ UNCHANGED <<db, script>>

\* GET /api/students/{student_id}/paths/graduation
GenerateGraduationPaths ==
    /\ Idle
    /\ \E student_id \in StudentIds :
        /\ request' = [op |-> "generate_graduation_paths", student_id |-> student_id]
        /\ calls' = generate_graduation_paths_calls(student_id)
        /\ response' = generate_graduation_paths(student_id)
    /\ UNCHANGED <<db, script>>

\* a direct call of degree_topological_sort, as the unit tests make
DegreeTopologicalSort ==
    /\ Idle
    /\ \E course_list \in CourseLists :
        /\ request' = [op |-> "degree_topological_sort", courses |-> course_list]
        /\ calls' = IF course_list = <<>> THEN {} ELSE {"get_direct_prereqs"}
        /\ response' = degree_topological_sort(course_list)
    /\ UNCHANGED <<db, script>>

\* a direct call of all_topological_orders on a graph build_graph made
AllTopologicalOrders ==
    /\ Idle
    /\ \E course_list \in CourseLists :
        /\ request' = [op |-> "all_topological_orders", graph |-> build_graph(course_list)]
        /\ calls' = {}
        /\ response' = all_topological_orders(build_graph(course_list))
    /\ UNCHANGED <<db, script>>

\* a database with one imported student, enrolled or not, and one degree
InitPlan ==
    /\ courses = SmallCatalog
    /\ preRequires \in SubsetsUpTo(courses \X courses, MaxEdges)
    /\ students = {ImportedStudent}
    /\ hasCompleted \in {{<<ImportedStudent, c>> : c \in T}
                         : T \in SubsetsUpTo(courses, MaxCompleted)}
    /\ credits = [c \in courses |-> 0]
    /\ offeredIn = {}
    /\ requiredFor \in SUBSET (courses \X {TheDegree})
    /\ enrolledIn \in {{}, {<<ImportedStudent, TheDegree>>}}
    /\ copies = StoredOnce
    /\ props = NamedCourses
    /\ request = NoRequest
    /\ calls = {}
    /\ response = NoRequest
    /\ script = NoScript

NextPlan == PlanDegree \/ GenerateGraduationPaths \/ DegreeTopologicalSort \/ Reply

SpecPlan == InitPlan /\ [][NextPlan]_vars

\* a database holding only courses and prerequisites
InitSort ==
    /\ courses = AllCodes
    /\ preRequires \in SubsetsUpTo(courses \X courses, MaxEdges)
    /\ students = {}
    /\ hasCompleted = {}
    /\ credits = [c \in courses |-> 0]
    /\ offeredIn = {}
    /\ requiredFor = {}
    /\ enrolledIn = {}
    /\ copies = StoredOnce
    /\ props = NamedCourses
    /\ request = NoRequest
    /\ calls = {}
    /\ response = NoRequest
    /\ script = NoScript

NextSort == DegreeTopologicalSort \/ AllTopologicalOrders \/ Reply

SpecSort == InitSort /\ [][NextSort]_vars

(***************************************************************************)
(* Prerequisite query service: check_student_can_take.                     *)
(***************************************************************************)
\* the bound of the variable-length pattern [:PRE_REQUIRES*1..10]
MaxHops == 10

\* the codes at the end of a path of 1 to hops PRE_REQUIRES relationships
\* followed from their start node to their end node
RECURSIVE ReachOut(_, _, _)
ReachOut(frontier, seen, hops) ==
    IF hops = 0 \/ frontier = {} THEN seen
    ELSE LET next == {q \in courses : \E p \in frontier : <<p, q>> \in preRequires}
         IN  ReachOut(next \ seen, seen \cup next, hops - 1)

\* the rows the query of check_student_can_take can return: none when no
\* Course has the code, else one, its two COLLECTs in an order the database
\* chooses
can_take_rows(student_id, course_code) ==
    LET node == [key |-> "student_id", sid |-> student_id]
        requiredSet == ReachOut({course_code}, {}, MaxHops)
        completedSet == {c \in courses : node \in students /\ <<node, c>> \in hasCompleted}
    IN  IF course_code \notin courses THEN {<<>>}
        ELSE {<<[course |-> course_code, required |-> r, completed |-> c,
                 student_exists |-> node \in students]>>
              : r \in Perms(requiredSet), c \in Perms(completedSet)}

\* check_student_can_take treating an unknown student as one with nothing done
check_student_can_take_no_student_branch(student_id, course_code, results) ==
    IF results = <<>>
    THEN [student_id |-> student_id, course |-> course_code, required |-> <<>>,
          completed |-> <<>>, missing |-> <<>>, can_take |-> FALSE,
          reason |-> "course_not_found"]
    ELSE LET row == results[1]
             missing == sorted(Range(row.required) \ Range(row.completed))
         IN  [student_id |-> student_id, course |-> row.course,
              required |-> row.required, completed |-> row.completed,
              missing |-> missing, can_take |-> Len(missing) = 0,
              reason |-> IF Len(missing) = 0 THEN "ok" ELSE "missing_prerequisites"]

\* check_student_can_take deciding can_take by counting instead of by missing
check_student_can_take_by_count(student_id, course_code, results) ==
    IF results = <<>>
    THEN [student_id |-> student_id, course |-> course_code, required |-> <<>>,
          completed |-> <<>>, missing |-> <<>>, can_take |-> FALSE,
          reason |-> "course_not_found"]
    ELSE LET row == results[1]
             missing == sorted(Range(row.required) \ Range(row.completed))
         IN  IF ~row.student_exists
             THEN [student_id |-> student_id, course |-> course_code,
                   required |-> row.required, completed |-> row.completed,
                   missing |-> row.required, can_take |-> FALSE,
                   reason |-> "student_not_found"]
             ELSE [student_id |-> student_id, course |-> row.course,
                   required |-> row.required, completed |-> row.completed,
                   missing |-> missing,
                   can_take |-> Len(row.required) <= Len(row.completed),
                   reason |-> IF Len(missing) = 0 THEN "ok" ELSE "missing_prerequisites"]

\* check_student_can_take, given the rows its query returned
check_student_can_take(student_id, course_code, results) ==
    IF results = <<>>
    THEN [student_id |-> student_id, course |-> course_code, required |-> <<>>,
          completed |-> <<>>, missing |-> <<>>, can_take |-> FALSE,
          reason |-> "course_not_found"]
    ELSE LET row == results[1]
             missing == sorted(Range(row.required) \ Range(row.completed))
         IN  IF ~row.student_exists
             THEN [student_id |-> student_id, course |-> course_code,
                   required |-> row.required, completed |-> row.completed,
                   missing |-> row.required, can_take |-> FALSE,
                   reason |-> "student_not_found"]
             ELSE [student_id |-> student_id, course |-> row.course,
                   required |-> row.required, completed |-> row.completed,
                   missing |-> missing, can_take |-> Len(missing) = 0,
                   reason |-> IF Len(missing) = 0 THEN "ok" ELSE "missing_prerequisites"]

\* the service call behind GET /students/{student_id}/can_take/{course_code}
CheckStudentCanTake ==
    /\ Idle
    /\ \E student_id \in StudentIds, course_code \in AllCodes :
        \E results \in can_take_rows(student_id, course_code) :
          /\ request' = [op |-> "check_student_can_take", student_id |-> student_id,
                         course_code |-> course_code]
          /\ calls' = {"client.query"}
          /\ response' = check_student_can_take(student_id, course_code, results)
    /\ UNCHANGED <<db, script>>

\* three courses, and no student, an imported one or a sample one
InitCanTake ==
    /\ courses = SmallCatalog
    /\ preRequires \in SubsetsUpTo(courses \X courses, MaxEdges)
    /\ students \in {{}, {ImportedStudent}, {SampleStudent}}
    /\ hasCompleted \in {{<<st, c>> : st \in students, c \in T}
                         : T \in IF students = {} THEN {{}}
                                 ELSE SubsetsUpTo(courses, MaxCompleted)}
    /\ credits = [c \in courses |-> 0]
    /\ offeredIn = {}
    /\ requiredFor = {}
    /\ enrolledIn = {}
    /\ copies = StoredOnce
    /\ props = NamedCourses
    /\ request = NoRequest
    /\ calls = {}
    /\ response = NoRequest
    /\ script = NoScript

NextCanTake == CheckStudentCanTake \/ Reply

SpecCanTake == InitCanTake /\ [][NextCanTake]_vars

(***************************************************************************)
(* Prerequisite query service: direct and transitive prerequisites.        *)
(***************************************************************************)
\* the node lists of the paths a pattern (c)-[:PRE_REQUIRES*1..hops]->(x)
\* matches when continued from path: each step follows a relationship from
\* its start node to its end node, and a path uses no relationship twice
RECURSIVE PathsFrom(_, _, _)
PathsFrom(path, used, hops) ==
    IF hops = 0 THEN {}
    ELSE LET last == path[Len(path)]
             steps == {q \in courses : <<last, q>> \in preRequires /\ <<last, q>> \notin used}
         IN  UNION {{Append(path, q)}
                    \cup PathsFrom(Append(path, q), used \cup {<<last, q>>}, hops - 1)
                    : q \in steps}

\* the paths of 1 to 10 relationships leaving the Course node with this code
VariableLengthPaths(code) ==
    IF code \in courses THEN PathsFrom(<<code>>, {}, MaxHops) ELSE {}

\* one row for each relationship matched: a code comes back once for every
\* copy of the relationship stored between the two nodes
RECURSIVE rows_of(_, _)
rows_of(course_code, codes) ==
    IF codes = <<>> THEN <<>>
    ELSE [i \in 1..copies[<<"PRE_REQUIRES", course_code, Head(codes)>>] |-> Head(codes)]
         \o rows_of(course_code, Tail(codes))

\* get_direct_prerequisites: (c {code})-[:PRE_REQUIRES]->(p), ORDER BY code
get_direct_prerequisites(course_code) ==
    rows_of(course_code,
            sorted({p \in courses : course_code \in courses
                                    /\ <<course_code, p>> \in preRequires}))

\* get_all_prerequisites with a pattern one relationship longer
get_all_prerequisites_one_more_hop(course_code) ==
    sorted({path[Len(path)]
            : path \in IF course_code \in courses
                       THEN PathsFrom(<<course_code>>, {}, MaxHops + 1) ELSE {}})

\* get_all_prerequisites: (c {code})-[:PRE_REQUIRES*1..10]->(p), DISTINCT,
\* ORDER BY code
get_all_prerequisites(course_code) ==
    sorted({path[Len(path)] : path \in VariableLengthPaths(course_code)})

(***************************************************************************)
(* Eligibility service and its route.                                      *)
(***************************************************************************)
\* EligibilityService.get_completed_courses: ORDER BY code
eligibility_get_completed_courses(student_id) ==
    LET node == [key |-> "student_id", sid |-> student_id]
    IN  sorted({c \in courses : node \in students /\ <<node, c>> \in hasCompleted})

\* compute_missing_prerequisites keeping what is completed instead of what is not
compute_missing_prerequisites_kept(course_prereqs, completed_courses) ==
    SelectSeq(course_prereqs, LAMBDA pr : pr \in Range(completed_courses))

\* EligibilityService.compute_missing_prerequisites
compute_missing_prerequisites(course_prereqs, completed_courses) ==
    SelectSeq(course_prereqs, LAMBDA pr : pr \notin Range(completed_courses))

\* EligibilityService.create_eligibility_response
create_eligibility_response(student_id, course_id, missing) ==
    [student_id |-> student_id, course_id |-> course_id,
     eligible |-> Len(missing) = 0, missing_prerequisites |-> missing]

\* check_eligibility asking for the direct prerequisites only
check_eligibility_direct_only(student_id, course_id) ==
    LET completed_courses == eligibility_get_completed_courses(student_id)
        course_prereqs == get_direct_prerequisites(course_id)
        missing == compute_missing_prerequisites(course_prereqs, completed_courses)
    IN  create_eligibility_response(student_id, course_id, missing)

\* check_eligibility, the handler of GET /api/students/{student_id}/eligibility
check_eligibility(student_id, course_id) ==
    LET completed_courses == eligibility_get_completed_courses(student_id)
        course_prereqs == get_all_prerequisites(course_id)
        missing == compute_missing_prerequisites(course_prereqs, completed_courses)
    IN  create_eligibility_response(student_id, course_id, missing)

\* longest list handed to the list functions when they are called directly
MaxLen == 3

\* the lists of at most n codes, repetitions and any order included
RECURSIVE ListsUpTo(_, _)
ListsUpTo(S, n) ==
    IF n = 0 THEN {<<>>}
    ELSE LET shorter == ListsUpTo(S, n - 1)
         IN  shorter \cup {Append(l, c) : l \in shorter, c \in S}

CodeLists == ListsUpTo(SmallCatalog, MaxLen)

CheckEligibility ==
    /\ Idle
    /\ \E student_id \in StudentIds, course_id \in AllCodes :
        /\ request' = [op |-> "check_eligibility", student_id |-> student_id,
                       course_id |-> course_id]
        /\ calls' = {"get_completed_courses", "get_all_prerequisites",
                     "compute_missing_prerequisites", "create_eligibility_response"}
        /\ response' = check_eligibility(student_id, course_id)
    /\ UNCHANGED <<db, script>>

ComputeMissingPrerequisites ==
    /\ Idle
    /\ \E course_prereqs \in CodeLists, completed_courses \in CodeLists :
        /\ request' = [op |-> "compute_missing_prerequisites",
                       course_prereqs |-> course_prereqs,
                       completed_courses |-> completed_courses]
        /\ calls' = {}
        /\ response' = compute_missing_prerequisites(course_prereqs, completed_courses)
    /\ UNCHANGED <<db, script>>

CreateEligibilityResponse ==
    /\ Idle
    /\ \E student_id \in StudentIds, course_id \in AllCodes, missing \in CodeLists :
        /\ request' = [op |-> "create_eligibility_response", student_id |-> student_id,
                       course_id |-> course_id, missing |-> missing]
        /\ calls' = {}
        /\ response' = create_eligibility_response(student_id, course_id, missing)
    /\ UNCHANGED <<db, script>>

\* the list functions read no graph: one graph is enough
InitMissing ==
    /\ courses = SmallCatalog
    /\ preRequires = {}
    /\ students = {ImportedStudent}
    /\ hasCompleted = {}
    /\ credits = [c \in courses |-> 0]
    /\ offeredIn = {}
    /\ requiredFor = {}
    /\ enrolledIn = {}
    /\ copies = StoredOnce
    /\ props = NamedCourses
    /\ request = NoRequest
    /\ calls = {}
    /\ response = NoRequest
    /\ script = NoScript

NextMissing == ComputeMissingPrerequisites \/ CreateEligibilityResponse \/ Reply

SpecMissing == InitMissing /\ [][NextMissing]_vars

\* three courses, any prerequisite relationships, and a student of either
\* kind with any courses completed
InitElig ==
    /\ courses = SmallCatalog
    /\ preRequires \in SubsetsUpTo(courses \X courses, MaxEdges)
    /\ students \in {{}, {ImportedStudent}, {SampleStudent}}
    /\ hasCompleted \in {{<<st, c>> : st \in students, c \in T}
                         : T \in IF students = {} THEN {{}} ELSE SUBSET courses}
    /\ credits = [c \in courses |-> 0]
    /\ offeredIn = {}
    /\ requiredFor = {}
    /\ enrolledIn = {}
    /\ copies = StoredOnce
    /\ props = NamedCourses
    /\ request = NoRequest
    /\ calls = {}
    /\ response = NoRequest
    /\ script = NoScript

NextElig == CheckEligibility \/ Reply

SpecElig == InitElig /\ [][NextElig]_vars

(***************************************************************************)
(* Course importer: reading one CSV row.  A row, as csv.DictReader hands   *)
(* it over, is [Course, PrerequisiteNumber, cells], cells[i + 1] being the *)
(* value under the column named i.                                         *)
(***************************************************************************)
\* number of prerequisite columns of the CSV files of the model
MaxColumns == 3

\* the value row.get() gives for a column the row or the header lacks
AbsentCell == "<None>"

\* str.strip() on the cell texts of the model
Strip(s) ==
    CASE s = " CS101 " -> "CS101"
      [] s = "CS102 "  -> "CS102"
      [] s = "   "     -> ""
      [] s = " 2 "     -> "2"
      [] OTHER         -> s

\* int() on a stripped text: the number, or None where int() raises ValueError
IntOf(s) ==
    CASE s = "0"  -> Some(0)
      [] s = "1"  -> Some(1)
      [] s = "2"  -> Some(2)
      [] s = "3"  -> Some(3)
      [] s = "4"  -> Some(4)
      [] s = "-1" -> Some(-1)
      [] OTHER    -> None

\* (value or "")
or_empty(v) == IF v = AbsentCell THEN "" ELSE v

\* row.get(str(i))
row_get(row, i) == IF i < Len(row.cells) THEN row.cells[i + 1] ELSE AbsentCell

\* parse_prereqs_row taking every column of the row as declared
prereq_count_all_columns(row) == Len(row.cells)

\* parse_prereqs_row: how many prerequisites are declared
prereq_count(row) ==
    LET count_raw == Strip(or_empty(row.PrerequisiteNumber))
    IN  IF count_raw = "" THEN 0
        ELSE IF IntOf(count_raw) = None THEN 0
        ELSE IntOf(count_raw)[1]

\* parse_prereqs_row: for i in range(prereq_count), from column i on
RECURSIVE read_columns(_, _, _, _)
read_columns(row, i, count, prereqs) ==
    IF i >= count THEN prereqs
    ELSE LET code == Strip(or_empty(row_get(row, i)))
         IN  read_columns(row, i + 1, count,
                          IF code # "" THEN Append(prereqs, code) ELSE prereqs)

\* parse_prereqs_row: deduplicate while preserving order
RECURSIVE unique_prereqs(_, _, _)
unique_prereqs(prereqs, seen, unique) ==
    IF prereqs = <<>> THEN unique
    ELSE IF Head(prereqs) \in seen THEN unique_prereqs(Tail(prereqs), seen, unique)
    ELSE unique_prereqs(Tail(prereqs), seen \cup {Head(prereqs)},
                        Append(unique, Head(prereqs)))

parse_prereqs_row(row) ==
    unique_prereqs(read_columns(row, 0, prereq_count(row), <<>>), {}, <<>>)

\* cell texts: absent, empty, blank, a code, the code padded, another code
\* with a trailing blank
CellChoices == {AbsentCell, "", "   ", "CS101", " CS101 ", "CS102 "}
\* PrerequisiteNumber texts
CountChoices == {AbsentCell, "", "abc", "2.0", "-1", "0", "1", " 2 ", "3", "4"}

RowChoices ==
    [Course : {"CS103"}, PrerequisiteNumber : CountChoices,
     cells : [1..MaxColumns -> CellChoices]]

ParsePrereqsRow ==
    /\ Idle
    /\ \E row \in RowChoices :
        /\ request' = [op |-> "parse_prereqs_row", row |-> row]
        /\ calls' = {}
        /\ response' = parse_prereqs_row(row)
    /\ UNCHANGED <<db, script>>

\* the importer starts on an empty database
InitParse ==
    /\ courses = {}
    /\ preRequires = {}
    /\ students = {}
    /\ hasCompleted = {}
    /\ credits = <<>>
    /\ offeredIn = {}
    /\ requiredFor = {}
    /\ enrolledIn = {}
    /\ copies = <<>>
    /\ props = <<>>
    /\ request = NoRequest
    /\ calls = {}
    /\ response = NoRequest
    /\ script = NoScript

NextParse == ParsePrereqsRow \/ Reply

SpecParse == InitParse /\ [][NextParse]_vars

(***************************************************************************)
(* Seeding scripts.  A graph g is [copies, props]: how many copies of each *)
(* node and relationship are stored, and the properties SET wrote.         *)
(***************************************************************************)
Graph == [copies |-> copies, props |-> props]

has(g, key) == key \in DOMAIN g.copies

\* CREATE: one more copy, whatever is stored already
create(g, key) ==
    [g EXCEPT !.copies = IF key \in DOMAIN @ THEN [@ EXCEPT ![key] = @ + 1]
                         ELSE @ @@ (key :> 1)]

\* MERGE: one copy is created when none matches
merge(g, key) ==
    IF has(g, key) THEN g ELSE [g EXCEPT !.copies = @ @@ (key :> 1)]

\* SET node.property = value
set_prop(g, key, property, value) ==
    [g EXCEPT !.props = (<<key, property>> :> value) @@ @]

\* MERGE (c:Course {code: $code}) ON CREATE SET c.name = $code
merge_course_named(g, code) ==
    LET key == <<"Course", code>>
    IN  IF has(g, key) THEN g ELSE set_prop(merge(g, key), key, "name", code)

\* MATCH (a) MATCH (b) MERGE (a)-[r]->(b): nothing without both end nodes
merge_between(g, a, b, rel) ==
    IF has(g, a) /\ has(g, b) THEN merge(g, rel) ELSE g

\* a statement a script sends: the kind of its Cypher text, its parameters,
\* and the functions main has called by the time it is sent
Statement(kind, args, entered) == [kind |-> kind, args |-> args, entered |-> entered]

\* a Python statement that raises without reaching the database
Raise(exception, entered) == Statement("raise", <<exception>>, entered)

\* driver.verify_connectivity() at the top of both main functions
verify_connectivity == <<Statement("verify_connectivity", <<>>, {})>>

\* create_constraints_and_indexes: for cypher in queries: run_query
create_constraints_and_indexes ==
    LET entered == {"create_constraints_and_indexes"}
    IN  <<Statement("create_constraint", <<"course_code_unique">>, entered),
          Statement("create_index", <<"course_name_index">>, entered)>>

\* import_courses_from_csv: for prereq_code in prereq_codes, two run_query
RECURSIVE import_prereqs(_, _, _)
import_prereqs(course_code, prereq_codes, entered) ==
    IF prereq_codes = <<>> THEN <<>>
    ELSE LET pr_code == Head(prereq_codes)
         IN  <<Statement("merge_course", <<pr_code>>, entered),
               Statement("merge_pre_requires", <<pr_code, course_code>>, entered)>>
             \o import_prereqs(course_code, Tail(prereq_codes), entered)

\* import_courses_from_csv: one row
import_course_row(row, entered) ==
    LET course_code == Strip(or_empty(row.Course))
    IN  IF course_code = "" THEN <<>>
        ELSE <<Statement("merge_course", <<course_code>>, entered)>>
             \o import_prereqs(course_code, parse_prereqs_row(row), entered)

RECURSIVE import_course_rows(_, _)
import_course_rows(rows, entered) ==
    IF rows = <<>> THEN <<>>
    ELSE import_course_row(Head(rows), entered) \o import_course_rows(Tail(rows), entered)

\* import_courses_from_csv: the file must exist and its header must hold the
\* columns Course and PrerequisiteNumber
import_courses_from_csv(csv) ==
    LET entered == {"create_constraints_and_indexes", "import_courses_from_csv"}
    IN  IF ~csv.exists THEN <<Raise("FileNotFoundError", entered)>>
        ELSE IF ~csv.header THEN <<Raise("ValueError", entered)>>
        ELSE import_course_rows(csv.rows, entered)

\* main of seed_data.py: the statements it sends, in order
seed_data(csv) ==
    verify_connectivity \o create_constraints_and_indexes \o import_courses_from_csv(csv)

\* the rows of a CSV of seed_extra_data.py, one statement each; opening a
\* file that is not there raises
RECURSIVE row_statements(_, _, _)
row_statements(kind, rows, entered) ==
    IF rows = <<>> THEN <<>>
    ELSE <<Statement(kind, Head(rows), entered)>>
         \o row_statements(kind, Tail(rows), entered)

import_degrees(file, entered) ==
    IF file = None THEN <<Raise("FileNotFoundError", entered)>>
    ELSE row_statements("merge_degree", file[1], entered)

import_degree_requirements(file, entered) ==
    IF file = None THEN <<Raise("FileNotFoundError", entered)>>
    ELSE row_statements("merge_required_for", file[1], entered)

\* import_students: two run_write for every row
RECURSIVE student_statements(_, _)
student_statements(rows, entered) ==
    IF rows = <<>> THEN <<>>
    ELSE <<Statement("merge_student", Head(rows), entered),
           Statement("merge_enrolled_in", Head(rows), entered)>>
         \o student_statements(Tail(rows), entered)

import_students(file, entered) ==
    IF file = None THEN <<Raise("FileNotFoundError", entered)>>
    ELSE student_statements(file[1], entered)

\* import_student_enrollments, called when the file exists
import_student_enrollments(file, entered) ==
    IF file = None THEN <<>>
    ELSE row_statements("merge_has_completed", file[1], entered)

\* create_semesters_and_offerings: the semesters list, in the order built
semesters_list == OrderFrom(SemesterNodes, 0)

\* the level create_semesters_and_offerings reads from a code: the digits of
\* the second blank-separated part, 0 for a code of one part
course_num(course_code) ==
    CASE course_code = "CS 101" -> 101
      [] course_code = "CS 401" -> 401
      [] OTHER                  -> 0

\* courses below this level are offered every semester, the others in Fall
AdvancedLevel == 400

offered_semesters(course_code) ==
    IF course_num(course_code) < AdvancedLevel THEN semesters_list
    ELSE SelectSeq(semesters_list, LAMBDA s : s.term = "Fall")

sample_students ==
    <<[id |-> "S001", name |-> "Alice Johnson", email |-> "alice@example.com",
       program |-> "Computer Science",
       completed |-> <<"CS 101", "MATH 220", "PHYS 211">>],
      [id |-> "S002", name |-> "Bob Smith", email |-> "bob@example.com",
       program |-> "Computer Science",
       completed |-> <<"CS 101", "CS 173", "MATH 220", "MATH 231">>],
      [id |-> "S003", name |-> "Carol Williams", email |-> "carol@example.com",
       program |-> "Computer Science", completed |-> <<>>]>>

\* create_semesters_and_offerings: for semester_id in offered_semesters
RECURSIVE merge_offered_in(_, _, _)
merge_offered_in(course_code, semesters, entered) ==
    IF semesters = <<>> THEN <<>>
    ELSE <<Statement("merge_offered_in", <<course_code, Head(semesters).id>>, entered)>>
         \o merge_offered_in(course_code, Tail(semesters), entered)

\* create_semesters_and_offerings: for course_code in courses, the codes the
\* MATCH (c:Course) returned.  The query has no ORDER BY, so the rows come
\* in an order the database chooses: the loop is kept as the set of codes
\* it has yet to reach, and any of them may be the next one
merge_offerings(codes, entered) ==
    IF codes = {} THEN <<>> ELSE <<Statement("for_course_code", codes, entered)>>

\* the statements a script may send next, each with those that follow it:
\* at the top of the loop over the courses, those of any course left
unfolded(pending) ==
    IF Head(pending).kind # "for_course_code" THEN {pending}
    ELSE {merge_offered_in(code, offered_semesters(code), Head(pending).entered)
          \o merge_offerings(Head(pending).args \ {code}, Head(pending).entered)
          \o Tail(pending) : code \in Head(pending).args}

\* create_semesters_and_offerings: for course_code in student["completed"]
RECURSIVE merge_completed(_, _, _)
merge_completed(student_id, completed, entered) ==
    IF completed = <<>> THEN <<>>
    ELSE <<Statement("merge_sample_completed", <<student_id, Head(completed)>>, entered)>>
         \o merge_completed(student_id, Tail(completed), entered)

\* create_semesters_and_offerings: for student in sample_students
RECURSIVE merge_sample_students(_, _)
merge_sample_students(list, entered) ==
    IF list = <<>> THEN <<>>
    ELSE <<Statement("merge_sample_student", Head(list), entered)>>
         \o merge_completed(Head(list).id, Head(list).completed, entered)
         \o merge_sample_students(Tail(list), entered)

\* create_semesters_and_offerings: what it sends before and after the
\* OFFERED_IN statements, which depend on the courses its MATCH returns
create_semesters_and_offerings(entered) ==
    <<Statement("create_semester_constraint", <<"semester_id_unique">>, entered),
      Statement("merge_semesters", semesters_list, entered),
      Statement("match_courses", <<>>, entered)>>
    \o merge_sample_students(sample_students, entered)

\* main of seed_extra_data.py: the statements it sends, in order; a file
\* is None when it is not there, and nothing follows the import that raises
seed_extra_data(files) ==
    LET degrees == {"import_degrees"}
        requirements == degrees \cup {"import_degree_requirements"}
        enrolled == requirements \cup {"import_students"}
        completed == enrolled \cup IF files.enrollments # None
                                   THEN {"import_student_enrollments"} ELSE {}
        seeded == completed \cup {"create_semesters_and_offerings"}
    IN  verify_connectivity
        \o IF files.degrees = None THEN import_degrees(None, degrees)
           ELSE import_degrees(files.degrees, degrees)
                \o IF files.requirements = None
                   THEN import_degree_requirements(None, requirements)
                   ELSE import_degree_requirements(files.requirements, requirements)
                        \o IF files.students = None THEN import_students(None, enrolled)
                           ELSE import_students(files.students, enrolled)
                                \o import_student_enrollments(files.enrollments, completed)
                                \o create_semesters_and_offerings(seeded)

\* UNWIND $semesters AS semester MERGE (s:Semester {id}) SET ...
RECURSIVE merge_semesters(_, _)
merge_semesters(g, semesters) ==
    IF semesters = <<>> THEN g
    ELSE LET semester == Head(semesters)
             key == <<"Semester", semester.id[1], semester.id[2]>>
             g1 == merge(g, key)
             g2 == set_prop(g1, key, "name", <<semester.term, semester.year>>)
             g3 == set_prop(g2, key, "year", semester.year)
             g4 == set_prop(g3, key, "term", semester.term)
             g5 == set_prop(g4, key, "order", semester.order)
         IN  merge_semesters(g5, Tail(semesters))

\* MERGE (d:Degree {id: $id}) SET d.degree_id = ..., d.name = ..., ...
merge_degree(g, row) ==
    LET key == <<"Degree", row.degree_id>>
        g1 == merge(g, key)
        g2 == set_prop(g1, key, "degree_id", row.degree_id)
        g3 == set_prop(g2, key, "name", row.degree_name)
        g4 == set_prop(g3, key, "subject_prefix", row.subject_prefix)
    IN  set_prop(g4, key, "description", row.description)

\* MERGE (s:Student {student_id: $sid}) SET s.name = ..., s.year = ..., ...
merge_student(g, row) ==
    LET key == <<"Student", "student_id", row.student_id>>
        g1 == merge(g, key)
        g2 == set_prop(g1, key, "name", row.name)
        g3 == set_prop(g2, key, "year", row.year)
    IN  set_prop(g3, key, "profile", row.profile)

\* MERGE (s:Student {id: $id}) SET s.name = ..., s.email = ..., ...
merge_sample_student(g, student) ==
    LET key == <<"Student", "id", student.id>>
        g1 == merge(g, key)
        g2 == set_prop(g1, key, "name", student.name)
        g3 == set_prop(g2, key, "email", student.email)
    IN  set_prop(g3, key, "program", student.program)

\* the graph one statement leaves when its transaction commits; a MATCH
\* that finds no node leaves the MERGE after it undone
run_statement(g, s) ==
    CASE s.kind = "merge_course" -> merge_course_named(g, s.args[1])
      [] s.kind = "merge_pre_requires" ->
            merge_between(g, <<"Course", s.args[1]>>, <<"Course", s.args[2]>>,
                          <<"PRE_REQUIRES", s.args[1], s.args[2]>>)
      [] s.kind = "merge_degree" -> merge_degree(g, s.args)
      [] s.kind = "merge_required_for" ->
            IF has(g, <<"Degree", s.args.degree_id>>)
            THEN merge(merge(g, <<"Course", s.args.course>>),
                       <<"REQUIRED_FOR", s.args.course, s.args.degree_id>>)
            ELSE g
      [] s.kind = "merge_student" -> merge_student(g, s.args)
      [] s.kind = "merge_enrolled_in" ->
            merge_between(g, <<"Student", "student_id", s.args.student_id>>,
                          <<"Degree", s.args.degree_id>>,
                          <<"ENROLLED_IN", "student_id", s.args.student_id,
                            s.args.degree_id>>)
      [] s.kind = "merge_has_completed" ->
            IF has(g, <<"Student", "student_id", s.args.student_id>>)
            THEN merge(merge(g, <<"Course", s.args.course>>),
                       <<"HAS_COMPLETED", "student_id", s.args.student_id, s.args.course>>)
            ELSE g
      [] s.kind = "merge_semesters" -> merge_semesters(g, s.args)
      [] s.kind = "merge_offered_in" ->
            merge_between(g, <<"Course", s.args[1]>>,
                          <<"Semester", s.args[2][1], s.args[2][2]>>,
                          <<"OFFERED_IN", s.args[1], s.args[2][1], s.args[2][2]>>)
      [] s.kind = "merge_sample_student" -> merge_sample_student(g, s.args)
      [] s.kind = "merge_sample_completed" ->
            merge_between(g, <<"Student", "id", s.args[1]>>, <<"Course", s.args[2]>>,
                          <<"HAS_COMPLETED", "id", s.args[1], s.args[2]>>)
      [] OTHER -> g

\* the statements that run in a transaction of the database
Transactions ==
    {"create_constraint", "create_index", "merge_course", "merge_pre_requires",
     "merge_degree", "merge_required_for", "merge_student", "merge_enrolled_in",
     "merge_has_completed", "create_semester_constraint", "merge_semesters",
     "match_courses", "merge_offered_in", "merge_sample_student",
     "merge_sample_completed"}

\* the graph g as the variables of the model hold it
Stored(g) ==
    LET keys(label) == {k \in DOMAIN g.copies : k[1] = label}
    IN  /\ copies' = g.copies
        /\ props' = g.props
        /\ courses' = {k[2] : k \in keys("Course")}
        /\ preRequires' = {<<k[2], k[3]>> : k \in keys("PRE_REQUIRES")}
        /\ students' = {[key |-> k[2], sid |-> k[3]] : k \in keys("Student")}
        /\ hasCompleted' = {<<[key |-> k[2], sid |-> k[3]], k[4]>>
                            : k \in keys("HAS_COMPLETED")}
        /\ offeredIn' = {<<k[2], <<k[3], k[4]>>>> : k \in keys("OFFERED_IN")}
        /\ requiredFor' = {<<k[2], k[3]>> : k \in keys("REQUIRED_FOR")}
        /\ enrolledIn' = {<<[key |-> k[2], sid |-> k[3]], k[4]>>
                          : k \in keys("ENROLLED_IN")}
        /\ credits' = [c \in {k[2] : k \in keys("Course")} |-> 0]

\* how often one script is run again on the same files
MaxRuns == 2

CourseRow(course, number, cells) ==
    [Course |-> course, PrerequisiteNumber |-> number, cells |-> cells]

\* a CSV file that is there, with the header the importer expects
CsvFile(rows) == [exists |-> TRUE, header |-> TRUE, rows |-> rows]

\* the CSV files handed to seed_data.py: the last two are a path without a
\* file and a file whose header lacks the column PrerequisiteNumber
CourseCsvChoices ==
    {CsvFile(<<>>),
     CsvFile(<<CourseRow("CS102", "1", <<"CS101">>)>>),
     CsvFile(<<CourseRow("CS102", "1", <<"CS101">>),
               CourseRow("CS103", " 2 ", <<"CS102 ", " CS101 ">>)>>),
     CsvFile(<<CourseRow("CS101", "1", <<"CS102 ">>),
               CourseRow("CS102", "1", <<"CS101">>)>>),
     CsvFile(<<CourseRow("CS 401", "1", <<"CS 101">>),
               CourseRow("   ", "1", <<"CS103">>)>>),
     CsvFile(<<CourseRow("CS101", "0", <<"CS102 ">>)>>),
     [exists |-> FALSE, header |-> FALSE, rows |-> <<>>],
     [exists |-> TRUE, header |-> FALSE, rows |-> <<>>]}

DegreeRow(id) ==
    [degree_id |-> id, degree_name |-> "Computer Science", subject_prefix |-> id,
     description |-> "BS"]
RequirementRow(degree, course) == [degree_id |-> degree, course |-> course]
StudentRow(sid, name, degree) ==
    [student_id |-> sid, name |-> name, year |-> "2", profile |-> "regular",
     degree_id |-> degree]
EnrollmentRow(sid, course) == [student_id |-> sid, course |-> course]

\* the directories handed to seed_extra_data.py: rows that name the degree,
\* the student and courses, rows that name a degree or a student no file
\* declares, a student listed twice, and directories where one of the three
\* files main always opens is not there
ExtraFileChoices ==
    LET ExtraFiles(d, r, s, e) ==
            [degrees |-> d, requirements |-> r, students |-> s, enrollments |-> e]
        degrees == Some(<<DegreeRow(TheDegree)>>)
        required == Some(<<RequirementRow(TheDegree, "CS 401")>>)
        other_degree == Some(<<RequirementRow("EE", "CS104")>>)
        alice == Some(<<StudentRow(TheStudent, "Alice", TheDegree)>>)
        twice == Some(<<StudentRow(TheStudent, "Alice", TheDegree),
                        StudentRow(TheStudent, "Alicia", "EE")>>)
        done == Some(<<EnrollmentRow(TheStudent, "CS 101")>>)
        nobody == Some(<<EnrollmentRow(NoStudent, "CS102")>>)
    IN  {ExtraFiles(degrees, required, Some(<<>>), None),
         ExtraFiles(degrees, required, alice, None),
         ExtraFiles(degrees, required, alice, done),
         ExtraFiles(degrees, required, twice, done),
         ExtraFiles(degrees, other_degree, alice, nobody),
         ExtraFiles(degrees, other_degree, Some(<<>>), done),
         ExtraFiles(None, None, None, None),
         ExtraFiles(degrees, None, None, None),
         ExtraFiles(degrees, required, None, None)}

SeedOps == {"seed_data", "seed_extra_data"}

\* a script may start when none is running: the first of a behaviour, the
\* same script on the same input again, or the other script once; a run
\* that raised is the last one
MayStart(op, input) ==
    /\ script.status = "done"
    /\ \/ script.op = "none"
       \/ script.op = op /\ script.input = input /\ script.runs < MaxRuns
       \/ script.op \in SeedOps \ {op} /\ script.first

\* the process of a script, at the top of main
Started(op, input, statements) ==
    LET again == script.op = op
    IN  [op |-> op, input |-> input, pending |-> statements, status |-> "running",
         raised |-> "none", calls |-> {}, committed |-> 0,
         runs |-> IF again THEN script.runs + 1 ELSE 1,
         left |-> IF again THEN script.left ELSE Graph,
         first |-> script.op = "none" \/ (again /\ script.first)]

\* python scripts/seed_data.py <csv>
SeedData ==
    /\ \E csv \in CourseCsvChoices :
        /\ MayStart("seed_data", csv)
        /\ script' = Started("seed_data", csv, seed_data(csv))
    /\ UNCHANGED <<db, request, calls, response>>

\* python scripts/seed_extra_data.py
SeedExtraData ==
    /\ \E files \in ExtraFileChoices :
        /\ MayStart("seed_extra_data", files)
        /\ script' = Started("seed_extra_data", files, seed_extra_data(files))
    /\ UNCHANGED <<db, request, calls, response>>

\* the functions main has called when it returns
main_calls(op, input) ==
    IF op = "seed_data" THEN {"create_constraints_and_indexes", "import_courses_from_csv"}
    ELSE {"import_degrees", "import_degree_requirements", "import_students",
          "create_semesters_and_offerings"}
         \cup IF input.enrollments # None THEN {"import_student_enrollments"} ELSE {}

\* run_query, run_write, session.run: the next statement of the running
\* script commits; after the last one main returns
RunStatement ==
    /\ script.status = "running"
    /\ Head(script.pending).kind # "raise"
    /\ \E pending \in unfolded(script.pending) :
       LET s == Head(pending)
           rest == IF s.kind = "match_courses"
                   THEN merge_offerings(courses, s.entered) \o Tail(pending)
                   ELSE Tail(pending)
       IN  \E g \in {run_statement(Graph, s)} :
             /\ Stored(g)
             /\ script' = [script EXCEPT
                    !.pending = rest,
                    !.status = IF rest = <<>> THEN "done" ELSE "running",
                    !.calls = IF rest = <<>> THEN main_calls(script.op, script.input)
                              ELSE s.entered,
                    !.committed = IF s.kind \in Transactions THEN @ + 1 ELSE @,
                    !.left = IF rest = <<>> /\ script.runs = 1 THEN g ELSE @]
    /\ UNCHANGED <<request, calls, response>>

\* what main raises when the database fails on a statement: run_query of
\* seed_data.py wraps every exception in a RuntimeError
raised_by(op, s) ==
    IF op = "seed_data" /\ s.kind \in Transactions THEN "RuntimeError"
    ELSE "ServiceUnavailable"

\* the next statement raises: the file is not there, the header is wrong,
\* or the connection to the database is lost.  What the transactions before
\* committed stays; create_semesters_and_offerings goes on after a failure
\* of its constraint statement, which it catches
StatementFails ==
    /\ script.status = "running"
    /\ LET s == Head(script.pending)
       IN  script' =
             IF s.kind = "raise"
             THEN [script EXCEPT !.status = "failed", !.raised = s.args[1],
                                 !.calls = s.entered]
             ELSE IF s.kind = "create_semester_constraint"
             THEN [script EXCEPT !.pending = Tail(@), !.calls = s.entered]
             ELSE [script EXCEPT !.status = "failed", !.raised = raised_by(script.op, s),
                                 !.calls = s.entered]
    /\ UNCHANGED <<db, request, calls, response>>

\* GET /courses/{course_code}/prerequisites?all=
get_course_prereqs(course_code, all) ==
    [course |-> course_code,
     prerequisites |-> IF all THEN get_all_prerequisites(course_code)
                       ELSE get_direct_prerequisites(course_code),
     mode |-> IF all THEN "all" ELSE "direct"]

GetCoursePrereqs ==
    /\ Idle
    /\ \E course_code \in courses \cup {"CS104"}, all \in BOOLEAN :
        /\ request' = [op |-> "get_course_prereqs", course_code |-> course_code,
                       all |-> all]
        /\ calls' = {IF all THEN "get_all_prerequisites" ELSE "get_direct_prerequisites"}
        /\ response' = get_course_prereqs(course_code, all)
    /\ UNCHANGED <<db, script>>

\* the scripts start on an empty database
InitSeed == InitParse

NextSeed ==
    SeedData \/ SeedExtraData \/ RunStatement \/ StatementFails \/ GetCoursePrereqs \/ Reply

SpecSeed == InitSeed /\ [][NextSeed]_vars

(***************************************************************************)
(* Prerequisite query service: cycles, and a catalog long enough for the   *)
(* ten-relationship bound of the variable-length patterns to matter.       *)
(***************************************************************************)
\* detect_cycles with the pattern left open at its end: (c)-[*1..10]->(x)
cycle_rows_open_ended ==
    {[course |-> c, length |-> Len(path) - 1, path |-> path]
     : <<c, path>> \in UNION {{c} \X VariableLengthPaths(c) : c \in courses}}

\* detect_cycles: the rows of MATCH p = (c:Course)-[:PRE_REQUIRES*1..10]->(c)
cycle_rows ==
    {[course |-> c, length |-> Len(path) - 1, path |-> path]
     : <<c, path>> \in UNION {{c} \X {q \in VariableLengthPaths(c) : q[Len(q)] = c}
                              : c \in courses}}

\* LIMIT $limit on rows that no ORDER BY sorts: any limit of them, in any order
Limited(rows, limit) ==
    LET n == Min(limit, Cardinality(rows))
    IN  {list \in [1..n -> rows] : \A i, j \in 1..n : i # j => list[i] # list[j]}

\* detect_cycles(limit): the results the database may return
detect_cycles(limit) == Limited(cycle_rows, limit)

\* the limit query parameter of GET /courses/cycles
LimitChoices == {0, 1, 2}

\* GET /courses/cycles?limit=
GetCycles ==
    /\ Idle
    /\ \E limit \in LimitChoices :
        \E cycles \in detect_cycles(limit) :
            /\ request' = [op |-> "get_cycles", limit |-> limit]
            /\ calls' = {"detect_cycles"}
            /\ response' = [count |-> Len(cycles), cycles |-> cycles]
    /\ UNCHANGED <<db, script>>

\* a catalog of twelve courses, each the prerequisite of the next
LongCatalog == {Codes[i] : i \in 3..Len(Codes)}
ChainEdges == {<<Codes[i], Codes[i + 1]>> : i \in 3..(Len(Codes) - 1)}

\* relationships a CSV may add to the chain: back to its start from the
\* tenth, eleventh and twelfth course, a repeated pair, a shortcut, and a
\* course naming itself
ExtraEdgeChoices ==
    {<<"CS110", "CS101">>, <<"CS111", "CS101">>, <<"CS112", "CS101">>,
     <<"CS102", "CS101">>, <<"CS101", "CS103">>, <<"CS105", "CS105">>}

InitChain ==
    /\ courses = LongCatalog
    /\ preRequires \in {ChainEdges \cup extra
                        : extra \in SubsetsUpTo(ExtraEdgeChoices, MaxEdges)}
    /\ students = {}
    /\ hasCompleted = {}
    /\ credits = [c \in courses |-> 0]
    /\ offeredIn = {}
    /\ requiredFor = {}
    /\ enrolledIn = {}
    /\ copies = StoredOnce
    /\ props = NamedCourses
    /\ request = NoRequest
    /\ calls = {}
    /\ response = NoRequest
    /\ script = NoScript

NextChain == GetCoursePrereqs \/ GetCycles \/ Reply

SpecChain == InitChain /\ [][NextChain]_vars

(***************************************************************************)
(* The API as a whole: what each route sends to the database, and what     *)
(* the client receives when the database fails.                            *)
(***************************************************************************)
\* the clauses of Cypher that change the graph
WritingClauses == {"CREATE", "MERGE", "SET", "DELETE", "REMOVE"}

\* routes of the application: main.py and the routers it includes
ApiRoutes ==
    {"root", "health", "prerequisites", "cycles", "can_take", "validation",
     "eligibility", "degree_plan", "graduation_paths", "schedule_optimize", "semesters"}

\* routes whose handler wraps its body in try / except Exception, with the
\* text it puts before str(e) in the detail of the HTTPException
catch_prefix(route) ==
    CASE route = "graduation_paths"  -> Some("")
      [] route = "schedule_optimize" -> Some("Error optimizing schedule: ")
      [] route = "semesters"         -> Some("Error fetching semesters: ")
      [] OTHER                       -> None

\* the route table with a MERGE among the schedule optimizer's queries
route_queries_merging(route) ==
    IF route = "root" THEN [via |-> "none", mode |-> "none", clauses |-> {}]
    ELSE IF route \in {"schedule_optimize", "semesters"}
    THEN [via |-> "session.run", mode |-> "auto-commit",
          clauses |-> {"MATCH", "MERGE", "RETURN"}]
    ELSE [via |-> "Neo4jClient.query", mode |-> "execute_read",
          clauses |-> {"MATCH", "RETURN"}]

\* how a route's services reach the database, and the clauses of the
\* queries they send; the handler of GET / sends none
route_queries(route) ==
    CASE route = "root" -> [via |-> "none", mode |-> "none", clauses |-> {}]
      [] route \in {"schedule_optimize", "semesters"} ->
            [via |-> "session.run", mode |-> "auto-commit",
             clauses |-> {"MATCH", "OPTIONAL MATCH", "WHERE", "WITH", "RETURN",
                          "ORDER BY", "LIMIT"}]
      [] route = "health" ->
            [via |-> "Neo4jClient.query", mode |-> "execute_read",
             clauses |-> {"RETURN"}]
      [] route = "can_take" ->
            [via |-> "Neo4jClient.query", mode |-> "execute_read",
             clauses |-> {"MATCH", "OPTIONAL MATCH", "WITH", "RETURN"}]
      [] route = "cycles" ->
            [via |-> "Neo4jClient.query", mode |-> "execute_read",
             clauses |-> {"MATCH", "RETURN", "LIMIT"}]
      [] route \in {"degree_plan", "graduation_paths"} ->
            [via |-> "Neo4jClient.query", mode |-> "execute_read",
             clauses |-> {"MATCH", "RETURN"}]
      [] OTHER ->
            [via |-> "Neo4jClient.query", mode |-> "execute_read",
             clauses |-> {"MATCH", "RETURN", "ORDER BY"}]

\* what the database does to the graph for one query: a transaction opened
\* for reading rejects a writing clause, any other applies it
query_effect(g, sent) ==
    IF sent.clauses \cap WritingClauses # {} /\ sent.mode # "execute_read"
    THEN merge_course_named(g, "CS104")
    ELSE g

\* failures of the database while a query runs: those the driver raises as
\* a Neo4jError (sent by the server) and those it raises as a DriverError
Neo4jErrors == {"CypherSyntaxError", "ConstraintError"}
DriverErrors == {"ServiceUnavailable"}
Failures == {"none"} \cup Neo4jErrors \cup DriverErrors

\* str(exc) of the exception the driver raises
exc_message(failure) ==
    CASE failure = "CypherSyntaxError"  -> "Invalid input"
      [] failure = "ConstraintError"    -> "already exists"
      [] failure = "ServiceUnavailable" -> "Unable to retrieve routing information"
      [] OTHER                          -> ""

\* Neo4jClient.query: the with block closes the session; except Neo4jError
\* wraps, and any other exception passes through; the message is the list of
\* the texts it is formatted from
query(failure) ==
    IF failure = "none" THEN [raised |-> "none", message |-> <<>>, session |-> "closed"]
    ELSE IF failure \in Neo4jErrors
    THEN [raised |-> "RuntimeError",
          message |-> <<"Neo4j query failed: ", exc_message(failure)>>,
          session |-> "closed"]
    ELSE [raised |-> failure, message |-> <<exc_message(failure)>>, session |-> "closed"]

\* with driver.session() as session: session.run(query)
session_run(failure) ==
    IF failure = "none" THEN [raised |-> "none", message |-> <<>>, session |-> "closed"]
    ELSE [raised |-> failure, message |-> <<exc_message(failure)>>, session |-> "closed"]

\* what the client receives: the handler's result, the HTTPException a
\* wrapping handler raises, or the framework's answer to an exception that
\* no handler caught
http_response(route, outcome, found) ==
    IF outcome.raised = "none"
    THEN IF route = "can_take" /\ ~found
         THEN [status_code |-> 404, media_type |-> "application/json",
               detail |-> <<"Course not found">>]
         ELSE [status_code |-> 200, media_type |-> "application/json"]
    ELSE IF catch_prefix(route) # None
    THEN [status_code |-> 500, media_type |-> "application/json",
          detail |-> <<catch_prefix(route)[1]>> \o outcome.message]
    ELSE [status_code |-> 500, media_type |-> "text/plain",
          content |-> "Internal Server Error"]

\* the courses a request for a route names: one the database holds and
\* one it does not, for the routes with a course in their parameters
route_courses(route) ==
    IF route \in {"prerequisites", "can_take", "validation", "eligibility"}
    THEN {"CS101", "CS104"} ELSE {""}

\* one request served by one route, the database failing or not; a handler
\* that sends no query does not meet the failure, and can_student_take
\* answers 404 when check_student_can_take reports course_not_found
ServeRoute ==
    /\ Idle
    /\ \E route \in ApiRoutes, failure \in Failures :
       \E course_code \in route_courses(route) :
        LET sent == route_queries(route)
            outcome == IF sent.via = "none" THEN query("none")
                       ELSE IF sent.via = "Neo4jClient.query" THEN query(failure)
                       ELSE session_run(failure)
        IN  /\ request' = [op |-> "serve", route |-> route, failure |-> failure,
                           course_code |-> course_code]
            /\ calls' = IF sent.via = "none" THEN {}
                        ELSE {[via |-> sent.via, mode |-> sent.mode,
                               clauses |-> sent.clauses, raised |-> outcome.raised,
                               message |-> outcome.message, session |-> outcome.session]}
            /\ response' = http_response(route, outcome, course_code \in courses)
            /\ IF failure = "none" \/ sent.via = "none"
               THEN \E g \in {query_effect(Graph, sent)} : Stored(g)
               ELSE UNCHANGED db
    /\ UNCHANGED script

\* the direct prerequisites of one course as each service reads them:
\* prerequisites.get_direct_prerequisites, degree_planner_service's
\* get_direct_prereqs (which build_graph of the graduation paths calls too),
\* and the list _get_all_courses_with_prereqs attaches to the course
DirectPrerequisites ==
    /\ Idle
    /\ \E course \in courses :
        /\ request' = [op |-> "direct_prerequisites", course |-> course]
        /\ calls' = {"get_direct_prerequisites", "get_direct_prereqs",
                     "_get_all_courses_with_prereqs"}
        /\ response' = [query_service |-> get_direct_prerequisites(course),
                        degree_planner |-> get_direct_prereqs(course),
                        schedule_optimizer |->
                            get_all_courses_with_prereqs[course].prerequisites]
    /\ UNCHANGED <<db, script>>

\* routes declared by the routers advanced_queries.py and gds.py, which
\* main.py does not pass to app.include_router
RouterRoutes ==
    {"bottleneck_courses", "recommendations", "course_depth", "student_summary",
     "pagerank"}

\* the top-level keys of what a handler returns for a course the database
\* holds; those of the degree plan and of the graduation paths depend on
\* what the student has left to complete
handler_keys(route, student_id, degree_id) ==
    CASE route = "root"              -> {"message", "version", "docs", "health"}
      [] route = "health"            -> {"status", "neo4j_ok"}
      [] route = "prerequisites"     -> {"course", "prerequisites", "mode"}
      [] route = "cycles"            -> {"count", "cycles"}
      [] route = "can_take"          -> {"student_id", "course", "required", "completed",
                                         "missing", "can_take", "reason"}
      [] route = "validation"        -> {"course", "can_take", "required_prerequisites",
                                         "missing_prerequisites", "completed_courses"}
      [] route = "eligibility"       -> {"student_id", "course_id", "eligible",
                                         "missing_prerequisites"}
      [] route = "degree_plan"       -> DOMAIN plan_degree(student_id, degree_id)
      [] route = "graduation_paths"  -> DOMAIN generate_graduation_paths(student_id)
      [] route = "schedule_optimize" -> {"student_id", "student_name", "program",
                                         "schedule", "total_semesters", "total_courses",
                                         "completed_courses", "warnings"}
      [] route = "semesters"         -> {"student_id", "semesters", "total"}
      [] route = "bottleneck_courses" -> {"bottleneck_courses", "total_found", "filters"}
      [] route = "pagerank"          -> {"algorithm", "limit", "results"}
      [] OTHER                       -> {}

\* TestClient(app) requests a route with well-formed parameters while the
\* database answers: a route of the application is handled, a path no
\* route of the application matches gets the framework's 404, and so does
\* can_student_take for a course the database does not hold
ClientRequest ==
    /\ Idle
    /\ \E route \in ApiRoutes \cup RouterRoutes :
       \E course_code \in route_courses(route) :
        /\ request' = [op |-> "client_request", route |-> route,
                       student_id |-> TheStudent, degree_id |-> TheDegree,
                       course_code |-> course_code]
        /\ response' = IF route \notin ApiRoutes
                           \/ (route = "can_take" /\ course_code \notin courses)
                       THEN [status_code |-> 404, keys |-> {"detail"}]
                       ELSE [status_code |-> 200,
                             keys |-> handler_keys(route, TheStudent, TheDegree)]
    /\ calls' = {}
    /\ UNCHANGED <<db, script>>

\* a database with the courses, at most one student with at most
\* MaxCompleted courses done, and a degree that requires courses or none
InitApi ==
    /\ courses = SmallCatalog
    /\ preRequires \in SubsetsUpTo(courses \X courses, MaxEdges)
    /\ students \in {{}, {ImportedStudent}, {SampleStudent}}
    /\ hasCompleted \in {{<<st, c>> : st \in students, c \in T}
                         : T \in IF students = {} THEN {{}}
                                 ELSE SubsetsUpTo(courses, MaxCompleted)}
    /\ credits = [c \in courses |-> 0]
    /\ offeredIn = {}
    /\ requiredFor \in {{}, {"CS101", "CS102"} \X {TheDegree}}
    /\ enrolledIn \in {{}, {<<st, TheDegree>> : st \in students}}
    /\ copies = StoredOnce
    /\ props = NamedCourses
    /\ request = NoRequest
    /\ calls = {}
    /\ response = NoRequest
    /\ script = NoScript

NextApi ==
    \/ ServeRoute
    \/ ClientRequest
    \/ DirectPrerequisites
    \/ GetCoursePrereqs
    \/ GetCycles
    \/ CheckStudentCanTake
    \/ CheckEligibility
    \/ Reply

SpecApi == InitApi /\ [][NextApi]_vars

(***************************************************************************)
(* Schedule optimizer: the sort and the assignment, each on its own.       *)
(***************************************************************************)
\* steps 5 and 6 of optimize_schedule: _build_prereq_graph, _topological_sort
TopologicalSort ==
    /\ Idle
    /\ \E student_id \in {TheStudent}, catalog \in CatalogOrders :
        LET completed_courses == get_student_info(student_id)
            all_courses == get_all_courses_with_prereqs
            keys == SelectSeq(catalog, LAMBDA c : c \notin completed_courses)
            prereq_graph == build_prereq_graph(keys, all_courses, completed_courses)
        IN  \E sorted_courses \in topological_sort(prereq_graph, keys, all_courses,
                                                   completed_courses) :
                /\ request' = [op |-> "_topological_sort", courses |-> keys,
                               completed |-> completed_courses]
                /\ calls' = {"_build_prereq_graph", "_topological_sort"}
                /\ response' = sorted_courses
    /\ UNCHANGED <<db, script>>

\* step 7 of optimize_schedule: _assign_courses_to_semesters
AssignCoursesToSemesters ==
    /\ Idle
    /\ \E student_id \in {TheStudent}, catalog \in CatalogOrders :
      \E sorted_courses \in sorted_lists(student_id, catalog) :
       \E constraints \in ConstraintChoices :
        /\ request' = [op |-> "_assign_courses_to_semesters",
                       sorted_courses |-> sorted_courses,
                       constraints |-> constraints,
                       completed |-> get_student_info(student_id)]
        /\ calls' = {"_assign_courses_to_semesters"}
        /\ response' = assign_courses_to_semesters(
                           sorted_courses, get_all_courses_with_prereqs,
                           get_semester_offerings(constraints.start_semester,
                                                  constraints.target_semesters),
                           constraints, get_student_info(student_id))
    /\ UNCHANGED <<db, script>>

\* every course with the default credits, or two courses of four credits
CreditPlans ==
    {[c \in SmallCatalog |-> 0], [c \in SmallCatalog |-> IF c = "CS103" THEN 0 ELSE 4]}

InitSteps ==
    /\ courses = SmallCatalog
    /\ preRequires \in SubsetsUpTo(courses \X courses, MaxEdges)
    /\ students \in {{}, {SampleStudent}}
    /\ hasCompleted \in {{<<SampleStudent, c>> : c \in T}
                         : T \in IF students = {} THEN {{}}
                                 ELSE SubsetsUpTo(courses, MaxCompleted)}
    /\ credits \in CreditPlans
    /\ offeredIn = SeededOfferings({})
    /\ requiredFor = {}
    /\ enrolledIn = {}
    /\ copies = StoredOnce
    /\ props = NamedCourses
    /\ request = NoRequest
    /\ calls = {}
    /\ response = NoRequest
    /\ script = NoScript

NextSteps == TopologicalSort \/ AssignCoursesToSemesters \/ Reply

SpecSteps == InitSteps /\ [][NextSteps]_vars

(***************************************************************************)
(* Semesters: the optimizer's query and the semesters endpoint.            *)
(***************************************************************************)
\* GET /api/students/{student_id}/schedule/semesters
get_available_semesters(student_id, start_semester, limit) ==
    LET matching == {s \in SemesterNodes : SemIdGeq(s.id, start_semester)}
        ordered == OrderByOrder(matching)
        limited == SubSeq(ordered, 1, Min(limit, Len(ordered)))
        semesters == [k \in 1..Len(limited) |->
                        [id |-> limited[k].id, year |-> limited[k].year,
                         term |-> limited[k].term,
                         courses_offered |->
                            Cardinality({c \in courses : <<c, limited[k].id>> \in offeredIn})]]
    IN  [student_id |-> student_id, semesters |-> semesters, total |-> Len(semesters)]

\* the limit and num_semesters values the model draws
SemesterLimits == {1, 3, 2 * SeedYears}

GetAvailableSemesters ==
    /\ Idle
    /\ \E start_semester \in SemesterIds, limit \in SemesterLimits :
        /\ request' = [op |-> "get_available_semesters", start_semester |-> start_semester,
                       limit |-> limit]
        /\ calls' = {"session.run"}
        /\ response' = get_available_semesters(TheStudent, start_semester, limit)
    /\ UNCHANGED <<db, script>>

\* step 4 of optimize_schedule: _get_semester_offerings
GetSemesterOfferings ==
    /\ Idle
    /\ \E start_semester \in SemesterIds, num_semesters \in SemesterLimits :
        /\ request' = [op |-> "_get_semester_offerings", start_semester |-> start_semester,
                       limit |-> num_semesters]
        /\ calls' = {"session.run"}
        /\ response' = [semesters |-> get_semester_offerings(start_semester, num_semesters)]
    /\ UNCHANGED <<db, script>>

NextSemesters == GetAvailableSemesters \/ GetSemesterOfferings \/ Reply

SpecSemesters == InitSteps /\ [][NextSemesters]_vars

(***************************************************************************)
(* The two loops one step at a time: the while loop of                     *)
(* degree_topological_sort and the recursion of dfs() inside               *)
(* all_topological_orders.  The running call keeps its locals in response. *)
(***************************************************************************)
\* one pass of the body of `while remaining:` in degree_topological_sort
while_remaining(graph, run) ==
    LET available == {c \in run.remaining : graph[c] \cap run.remaining = {}}
    IN  IF available = {}
        THEN [run EXCEPT !.iterations = @ + 1, !.returned = TRUE, !.result = None]
        ELSE [run EXCEPT !.iterations = @ + 1,
                         !.sequence = Append(@, sorted(available)),
                         !.remaining = @ \ available]

\* degree_topological_sort is entered: graph, sequence and remaining are set
EnterDegreeTopologicalSort ==
    /\ Idle
    /\ \E course_list \in CourseLists :
        /\ request' = [op |-> "degree_topological_sort", courses |-> course_list]
        /\ response' = [sequence |-> <<>>, remaining |-> Range(course_list),
                        iterations |-> 0, returned |-> FALSE, result |-> None]
        /\ calls' = IF course_list = <<>> THEN {} ELSE {"get_direct_prereqs"}
    /\ UNCHANGED <<db, script>>

\* the while loop tests `remaining` and either runs its body or falls
\* through to `return sequence`
WhileRemaining ==
    /\ request.op = "degree_topological_sort"
    /\ ~response.returned
    /\ response' =
        IF response.remaining = {}
        THEN [response EXCEPT !.returned = TRUE, !.result = Some(response.sequence)]
        ELSE while_remaining([c \in Range(request.courses) |-> get_direct_prereqs(c)],
                             response)
    /\ UNCHANGED <<db, script, request, calls>>

\* a dfs() frame that undoes only the order on backtracking
dfs_step_keeps_visited(graph, run) ==
    LET frame == run.frames[Len(run.frames)]
        below == SubSeq(run.frames, 1, Len(run.frames) - 1)
    IN  IF frame.at <= Len(graph.keys)
        THEN LET node == graph.keys[frame.at]
             IN  IF node \notin run.visited /\ graph.pre[node] \subseteq run.visited
                 THEN [run EXCEPT !.visited = @ \cup {node},
                                  !.order = Append(@, node),
                                  !.frames = Append(@, [at |-> 1, added |-> FALSE])]
                 ELSE [run EXCEPT !.frames[Len(run.frames)].at = @ + 1]
        ELSE LET recorded == IF frame.added THEN run.results
                             ELSE Append(run.results, run.order)
             IN  IF below = <<>>
                 THEN [run EXCEPT !.results = recorded, !.frames = <<>>,
                                  !.returned = TRUE]
                 ELSE [run EXCEPT
                         !.results = recorded,
                         !.order = SubSeq(@, 1, Len(@) - 1),
                         !.frames = [below EXCEPT ![Len(below)] =
                                        [at |-> @.at + 1, added |-> TRUE]]]

\* one step of the innermost dfs() frame: the for loop looks at the node at
\* its position and places it and recurses, or skips it; past the last
\* node the frame records the order if it added nothing and returns, and
\* its caller backtracks and moves on
dfs_step(graph, run) ==
    LET frame == run.frames[Len(run.frames)]
        below == SubSeq(run.frames, 1, Len(run.frames) - 1)
    IN  IF frame.at <= Len(graph.keys)
        THEN LET node == graph.keys[frame.at]
             IN  IF node \notin run.visited /\ graph.pre[node] \subseteq run.visited
                 THEN [run EXCEPT !.visited = @ \cup {node},
                                  !.order = Append(@, node),
                                  !.frames = Append(@, [at |-> 1, added |-> FALSE])]
                 ELSE [run EXCEPT !.frames[Len(run.frames)].at = @ + 1]
        ELSE LET recorded == IF frame.added THEN run.results
                             ELSE Append(run.results, run.order)
             IN  IF below = <<>>
                 THEN [run EXCEPT !.results = recorded, !.frames = <<>>,
                                  !.returned = TRUE]
                 ELSE [run EXCEPT
                         !.results = recorded,
                         !.visited = @ \ {graph.keys[below[Len(below)].at]},
                         !.order = SubSeq(@, 1, Len(@) - 1),
                         !.frames = [below EXCEPT ![Len(below)] =
                                        [at |-> @.at + 1, added |-> TRUE]]]

\* all_topological_orders is entered and makes its outer call of dfs()
EnterAllTopologicalOrders ==
    /\ Idle
    /\ \E course_list \in CourseLists :
        /\ request' = [op |-> "all_topological_orders", graph |-> build_graph(course_list)]
        /\ response' = [results |-> <<>>, visited |-> {}, order |-> <<>>,
                        frames |-> <<[at |-> 1, added |-> FALSE]>>,
                        returned |-> FALSE]
    /\ calls' = {}
    /\ UNCHANGED <<db, script>>

\* the innermost dfs() frame takes a step
Dfs ==
    /\ request.op = "all_topological_orders"
    /\ ~response.returned
    /\ response' = dfs_step(request.graph, response)
    /\ UNCHANGED <<db, script, request, calls>>

\* the finished call hands its result to the caller
Return ==
    /\ ~Idle
    /\ response.returned
    /\ request' = NoRequest
    /\ calls' = {}
    /\ response' = NoRequest
    /\ UNCHANGED <<db, script>>

\* a database of three courses and their prerequisites
InitLoops ==
    /\ courses = SmallCatalog
    /\ preRequires \in SubsetsUpTo(courses \X courses, MaxEdges)
    /\ students = {}
    /\ hasCompleted = {}
    /\ credits = [c \in courses |-> 0]
    /\ offeredIn = {}
    /\ requiredFor = {}
    /\ enrolledIn = {}
    /\ copies = StoredOnce
    /\ props = NamedCourses
    /\ request = NoRequest
    /\ calls = {}
    /\ response = NoRequest
    /\ script = NoScript

NextLoops ==
    \/ EnterDegreeTopologicalSort
    \/ WhileRemaining
    \/ EnterAllTopologicalOrders
    \/ Dfs
    \/ Return

SpecLoops == InitLoops /\ [][NextLoops]_vars

(***************************************************************************)
(* Next-available-courses analysis (AdvancedQueriesService).               *)
(***************************************************************************)
\* toInteger(100.0 * (total - missing) / total): the quotient cut to its
\* integer part; 100 when nothing is missing or there is nothing required
readiness_score(total, missing) ==
    IF missing = 0 THEN 100
    ELSE IF total = 0 THEN 100
    ELSE (100 * (total - missing)) \div total

\* collect(DISTINCT prereq.code) over (offered)-[:PRE_REQUIRES*1..]->(prereq)
all_prereq_codes(offered) ==
    ReachOut({offered}, {}, Cardinality(preRequires))

\* the rows in ORDER BY readiness_score DESC, course_code
RECURSIVE by_score_then_code(_)
by_score_then_code(rows) ==
    IF rows = {} THEN <<>>
    ELSE LET first == CHOOSE r \in rows : \A q \in rows :
                         \/ r.readiness_score > q.readiness_score
                         \/ /\ r.readiness_score = q.readiness_score
                            /\ sorted({r.course_code, q.course_code})[1] = r.course_code
         IN  <<first>> \o by_score_then_code(rows \ {first})

\* get_next_courses_with_analysis: of each course its code, score, number
\* of missing codes and can_take_now
get_next_courses_with_analysis(student_id, semester_id) ==
    LET s == [key |-> "id", sid |-> student_id]
        completed_codes == {c \in courses : <<s, c>> \in hasCompleted}
        offered == {c \in courses : <<c, semester_id>> \in offeredIn
                                    /\ semester_id \in SemesterIds
                                    /\ c \notin completed_codes}
        missing(c) == all_prereq_codes(c) \ completed_codes
        score(c) == readiness_score(Cardinality(all_prereq_codes(c)),
                                    Cardinality(missing(c)))
    IN  IF s \notin students THEN <<>>
        ELSE by_score_then_code(
                {[course_code |-> c,
                  readiness_score |-> score(c),
                  missing_count |-> Cardinality(missing(c)),
                  can_take_now |-> Cardinality(missing(c)) = 0]
                 : c \in {o \in offered : score(o) >= 50}})

GetNextCoursesWithAnalysis ==
    /\ Idle
    /\ \E student_id \in StudentIds, semester_id \in {<<"FALL", 2024>>, <<"SPRING", 2025>>} :
        /\ request' = [op |-> "get_next_courses_with_analysis",
                       student_id |-> student_id, semester_id |-> semester_id]
        /\ response' = get_next_courses_with_analysis(student_id, semester_id)
    /\ calls' = {}
    /\ UNCHANGED <<db, script>>

\* five courses in a chain, with relationships a CSV may add or leave out
FiveCourses == {"CS101", "CS102", "CS103", "CS104", "CS105"}
ScoreEdgeChoices ==
    {<<"CS101", "CS102">>, <<"CS102", "CS103">>, <<"CS103", "CS104">>,
     <<"CS104", "CS105">>, <<"CS101", "CS103">>, <<"CS105", "CS101">>,
     <<"CS102", "CS102">>}

\* a seeded database: the sample student, keyed by id, has completed any
\* of the courses; CS105 is offered in Fall only
InitScore ==
    /\ courses = FiveCourses
    /\ preRequires \in SUBSET ScoreEdgeChoices
    /\ students = {SampleStudent}
    /\ hasCompleted \in {{<<SampleStudent, c>> : c \in T} : T \in SUBSET courses}
    /\ credits = [c \in courses |-> 0]
    /\ offeredIn = SeededOfferings({"CS105"})
    /\ requiredFor = {}
    /\ enrolledIn = {}
    /\ copies = StoredOnce
    /\ props = NamedCourses
    /\ request = NoRequest
    /\ calls = {}
    /\ response = NoRequest
    /\ script = NoScript

NextScore == GetNextCoursesWithAnalysis \/ Reply

SpecScore == InitScore /\ [][NextScore]_vars

(***************************************************************************)
(* The lazily initialised singletons.  get_neo4j_client and                *)
(* get_neo4j_driver are wrapped in lru_cache(maxsize=1);                   *)
(* get_schedule_optimizer_service and get_advanced_queries_service test a  *)
(* module global for None and assign it.  Neither takes a lock around the  *)
(* construction, and the handlers that call them run on several threads.   *)
(* The constructors of the two services do not read the environment: they  *)
(* call get_neo4j_client and get_neo4j_driver and keep what these return.  *)
(* While callers are inside a factory, response holds the process: the     *)
(* cached instance, the environment, and where each caller is.             *)
(***************************************************************************)
CachedFactories == {"get_neo4j_client", "get_neo4j_driver"}
GlobalFactories == {"get_schedule_optimizer_service", "get_advanced_queries_service"}

\* the threads that may call a factory, at the same time or one after another
MaxCallers == 3
Callers == 1..MaxCallers

\* values of NEO4J_URI
Uris == {"bolt://localhost:7687", "bolt://other:7687"}

\* a caller that has not called yet
Outside == [pc |-> "outside", client |-> None, local |-> None, got |-> None, after |-> None]

\* NEO4J_URI when the process starts: not set, so os.getenv gives the default
DefaultUri == "bolt://localhost:7687"

\* the process before the callers call a factory.  The client (or driver)
\* may have been built before: importing src/main.py builds the client
\* (EligibilityService() at the import of routes/eligibility.py), and a
\* request for the semesters builds the driver.  For a cached factory that
\* earlier call has returned the instance the cache holds; for a service
\* factory it has filled the cache the constructor of the service looks up
FirstCall(factory, called_before) ==
    LET built == Some([serial |-> 1, uri |-> DefaultUri])
        cached == called_before /\ factory \in CachedFactories
    IN  [cache |-> IF cached THEN built ELSE None,
         driver |-> IF called_before /\ ~cached THEN Some(DefaultUri) ELSE None,
         constructed |-> IF cached THEN 1 ELSE 0,
         first |-> IF cached THEN built ELSE None,
         environ |-> DefaultUri,
         callers |-> [t \in Callers |-> Outside]]

\* a process is started: the modules are imported, with or without a call
\* of the client (or driver) factory before the callers come
ImportModule ==
    /\ Idle
    /\ \E factory \in CachedFactories \cup GlobalFactories, called_before \in BOOLEAN :
        /\ request' = [op |-> "factory", factory |-> factory,
                       called_before |-> called_before]
        /\ response' = FirstCall(factory, called_before)
    /\ calls' = {}
    /\ UNCHANGED <<db, script>>

\* os.environ is changed while the process runs
SetEnviron ==
    /\ request.op = "factory"
    /\ \E uri \in Uris \ {response.environ} :
        response' = [response EXCEPT !.environ = uri]
    /\ UNCHANGED <<db, script, request, calls>>

\* a caller enters the factory: the lru_cache wrapper looks the key up and
\* returns a hit at once; the global factories evaluate `is None`
Enter ==
    /\ request.op = "factory"
    /\ \E t \in Callers :
        /\ response.callers[t].pc = "outside"
        /\ response' =
            IF response.cache = None
            THEN [response EXCEPT !.callers[t].pc = "missed",
                                  !.callers[t].after = response.first]
            ELSE IF request.factory \in CachedFactories
            THEN [response EXCEPT !.callers[t].pc = "returned",
                                  !.callers[t].after = response.first,
                                  !.callers[t].got = response.cache,
                                  !.first = IF @ = None THEN response.cache ELSE @]
            ELSE [response EXCEPT !.callers[t].pc = "found",
                                  !.callers[t].after = response.first]
    /\ UNCHANGED <<db, script, request, calls>>

\* a caller that missed builds an instance.  The body of a cached factory
\* reads the environment as it is.  The constructor of a service calls the
\* cached factory of the client (or driver): a hit gives the service the
\* cached one, a miss takes the caller into that factory's body
Construct ==
    /\ request.op = "factory"
    /\ \E t \in Callers :
        /\ response.callers[t].pc = "missed"
        /\ response' =
            IF request.factory \in CachedFactories
            THEN [response EXCEPT
                    !.constructed = @ + 1,
                    !.callers[t].pc = "built",
                    !.callers[t].local = Some([serial |-> response.constructed + 1,
                                               uri |-> response.environ])]
            ELSE IF response.driver # None
            THEN [response EXCEPT
                    !.constructed = @ + 1,
                    !.callers[t].pc = "built",
                    !.callers[t].local = Some([serial |-> response.constructed + 1,
                                               uri |-> response.driver[1]])]
            ELSE [response EXCEPT !.callers[t].pc = "connecting"]
    /\ UNCHANGED <<db, script, request, calls>>

\* the body of get_neo4j_client / get_neo4j_driver, entered from the
\* constructor of a service: os.getenv and the client built from it
Connect ==
    /\ request.op = "factory"
    /\ \E t \in Callers :
        /\ response.callers[t].pc = "connecting"
        /\ response' = [response EXCEPT !.callers[t].pc = "connected",
                                        !.callers[t].client = Some(response.environ)]
    /\ UNCHANGED <<db, script, request, calls>>

\* the lru_cache wrapper stores the client unless one was stored meanwhile
\* and returns the one this caller built, which the service keeps
StoreClient ==
    /\ request.op = "factory"
    /\ \E t \in Callers :
        /\ response.callers[t].pc = "connected"
        /\ response' =
            [response EXCEPT
                !.driver = IF @ = None THEN response.callers[t].client ELSE @,
                !.constructed = @ + 1,
                !.callers[t].pc = "built",
                !.callers[t].local = Some([serial |-> response.constructed + 1,
                                           uri |-> response.callers[t].client[1]])]
    /\ UNCHANGED <<db, script, request, calls>>

\* what a caller does with the instance it built.  lru_cache: the wrapper
\* stores the result unless the key was added meanwhile, and returns the
\* result it computed either way.  Global: the assignment overwrites, and
\* the return statement reads the global afterwards.
store_and_return(factory, process, t) ==
    IF factory \in CachedFactories
    THEN [process EXCEPT
            !.cache = IF @ = None THEN process.callers[t].local ELSE @,
            !.callers[t].pc = "returned",
            !.callers[t].got = process.callers[t].local,
            !.first = IF @ = None THEN process.callers[t].local ELSE @]
    ELSE [process EXCEPT
            !.cache = process.callers[t].local,
            !.callers[t].pc = "found"]

StoreAndReturn ==
    /\ request.op = "factory"
    /\ \E t \in Callers :
        /\ response.callers[t].pc = "built"
        /\ response' = store_and_return(request.factory, response, t)
    /\ UNCHANGED <<db, script, request, calls>>

\* return _schedule_optimizer_service / return _advanced_queries_service:
\* the global is read when the statement runs
ReturnGlobal ==
    /\ request.op = "factory"
    /\ \E t \in Callers :
        /\ response.callers[t].pc = "found"
        /\ response' = [response EXCEPT !.callers[t].pc = "returned",
                                        !.callers[t].got = response.cache,
                                        !.first = IF @ = None THEN response.cache ELSE @]
    /\ UNCHANGED <<db, script, request, calls>>

\* the process ends
Exit ==
    /\ request.op = "factory"
    /\ \A t \in Callers : response.callers[t].pc = "returned"
    /\ request' = NoRequest
    /\ response' = NoRequest
    /\ calls' = {}
    /\ UNCHANGED <<db, script>>

\* a process connected to an empty database
InitProcess ==
    /\ courses = {}
    /\ preRequires = {}
    /\ students = {}
    /\ hasCompleted = {}
    /\ credits = [c \in courses |-> 0]
    /\ offeredIn = {}
    /\ requiredFor = {}
    /\ enrolledIn = {}
    /\ copies = StoredOnce
    /\ props = NamedCourses
    /\ request = NoRequest
    /\ calls = {}
    /\ response = NoRequest
    /\ script = NoScript

NextProcess ==
    \/ ImportModule
    \/ SetEnviron
    \/ Enter
    \/ Construct
    \/ Connect
    \/ StoreClient
    \/ StoreAndReturn
    \/ ReturnGlobal
    \/ Exit

SpecProcess == InitProcess /\ [][NextProcess]_vars

(***************************************************************************)
(* Properties of the schedule optimizer.                                   *)
(***************************************************************************)
Optimized == request.op = "optimize_schedule"

\* the codes a semester of the returned schedule holds
CodesIn(sem) == {sem.courses[i].course_code : i \in 1..Len(sem.courses)}
CreditsIn(sem) == SumSeq([i \in 1..Len(sem.courses) |-> sem.courses[i].credits])

\* C1: in every schedule returned, every semester holds at most
\* max_courses_per_semester courses (counted, and as total_courses reports)
\* and the credits of its courses sum to at most max_credits_per_semester.
C1_CapsRespected ==
    Optimized =>
        \A k \in 1..Len(response.schedule) :
            LET sem == response.schedule[k]
            IN  /\ Len(sem.courses) <= request.constraints.max_courses_per_semester
                /\ sem.total_courses <= request.constraints.max_courses_per_semester
                /\ CreditsIn(sem) <= request.constraints.max_credits_per_semester

\* both caps are met exactly in one semester and a course had to wait
C1_Witness ==
    /\ Optimized
    /\ \E k \in 1..Len(response.schedule) :
        /\ Len(response.schedule[k].courses) = request.constraints.max_courses_per_semester
        /\ CreditsIn(response.schedule[k]) = request.constraints.max_credits_per_semester
        /\ \E j \in (k + 1)..Len(response.schedule) :
              \E c \in CodesIn(response.schedule[j]) :
                  <<c, response.schedule[k].semester_id>> \in offeredIn

\* C2: every course placed in semester N has each of its direct prerequisites
\* (the courses with a PRE_REQUIRES relationship into it) in the student's
\* completed set or placed in a semester strictly before N.
C2_PrerequisitesFirst ==
    Optimized =>
        \A k \in 1..Len(response.schedule) :
            \A c \in CodesIn(response.schedule[k]) :
                \A p \in courses :
                    <<p, c>> \in preRequires =>
                        \/ p \in response.completed_courses
                        \/ \E j \in 1..(k - 1) : p \in CodesIn(response.schedule[j])

\* C3: each code is in at most one semester and at most once in it, no
\* assigned course is completed, and each is offered in its semester.
C3_AssignedOnceNotCompletedOffered ==
    Optimized =>
        \A k \in 1..Len(response.schedule) :
            LET sem == response.schedule[k]
            IN  /\ \A i, j \in 1..Len(sem.courses) :
                      sem.courses[i].course_code = sem.courses[j].course_code => i = j
                /\ \A c \in CodesIn(sem) :
                      /\ \A j \in 1..Len(response.schedule) :
                            c \in CodesIn(response.schedule[j]) => j = k
                      /\ c \notin response.completed_courses
                      /\ <<[key |-> "id", sid |-> request.student_id], c>> \notin hasCompleted
                      /\ <<c, sem.semester_id>> \in offeredIn

\* a student with a completed course gets a schedule in which a course not
\* offered in Spring waits for the next Fall
C3_Witness ==
    /\ Optimized
    /\ response.completed_courses # {}
    /\ Len(response.schedule) = 3
    /\ CodesIn(response.schedule[1]) # {}
    /\ \E c \in CodesIn(response.schedule[3]) :
          <<c, response.schedule[2].semester_id>> \notin offeredIn

(***************************************************************************)
(* Properties of degree planning and graduation paths.                     *)
(***************************************************************************)
\* The prerequisite relation the importer stores: p is a direct prerequisite
\* of c when (p)-[:PRE_REQUIRES]->(c).
StoredPrereqs == [c \in courses |-> {p \in courses : <<p, c>> \in preRequires}]

\* the members of S that c reaches by one or more prerequisite steps inside S
RECURSIVE UpstreamFrom(_, _, _, _)
UpstreamFrom(pre, S, seen, frontier) ==
    IF frontier = {} THEN seen
    ELSE LET next == (UNION {pre[c] \cap S : c \in frontier}) \ seen
         IN  UpstreamFrom(pre, S, seen \cup next, next)
Upstream(pre, S, c) == UpstreamFrom(pre, S, pre[c] \cap S, pre[c] \cap S)

\* the relation pre restricted to S has a cycle (a self-loop included)
Cyclic(pre, S) == \E c \in S : c \in Upstream(pre, S, c)

Ascending(list) ==
    \A i, j \in 1..Len(list) : i < j => Rank(list[i]) < Rank(list[j])

SortCalled == request.op = "degree_topological_sort"

\* C4: on a course set whose in-set prerequisite graph is acyclic,
\* degree_topological_sort returns non-empty levels that partition the set,
\* each in alphabetical order, every course's in-set prerequisites in
\* strictly earlier levels and one of them in the level just before (so the
\* course sits in the earliest level possible; prerequisites outside the set
\* never delay it); the chain CS101 <- CS102 <- CS103 gives three levels of
\* one course and a non-empty set without interdependencies gives one level.
C4_LevelsAreEarliestBatches ==
    (SortCalled /\ ~Cyclic(StoredPrereqs, Range(request.courses))) =>
        /\ response # None
        /\ LET S == Range(request.courses)
               levels == response[1]
               inSet(c) == StoredPrereqs[c] \cap S
           IN  /\ \A c \in S : \E k \in 1..Len(levels) : c \in Range(levels[k])
               /\ \A k \in 1..Len(levels) :
                     /\ levels[k] # <<>>
                     /\ Range(levels[k]) \subseteq S
                     /\ Ascending(levels[k])
                     /\ \A j \in 1..Len(levels) :
                           j # k => Range(levels[j]) \cap Range(levels[k]) = {}
                     /\ \A c \in Range(levels[k]) :
                           /\ \A p \in inSet(c) :
                                 \E j \in 1..(k - 1) : p \in Range(levels[j])
                           /\ k > 1 => inSet(c) \cap Range(levels[k - 1]) # {}
               /\ (S # {} /\ \A c \in S : inSet(c) = {}) =>
                     (Len(levels) = 1 /\ Range(levels[1]) = S)
               /\ (/\ S = {"CS101", "CS102", "CS103"}
                   /\ inSet("CS101") = {}
                   /\ inSet("CS102") = {"CS101"}
                   /\ inSet("CS103") = {"CS102"}) =>
                     levels = <<<<"CS101">>, <<"CS102">>, <<"CS103">>>>

\* the chain, its first course having a prerequisite outside the set
C4_Witness ==
    /\ SortCalled
    /\ Range(request.courses) = {"CS101", "CS102", "CS103"}
    /\ preRequires = {<<"CS104", "CS101">>, <<"CS101", "CS102">>, <<"CS102", "CS103">>}
    /\ response = Some(<<<<"CS101">>, <<"CS102">>, <<"CS103">>>>)

Planned == request.op = "plan_degree"

\* what the degree still asks of the student, read off the stored relations
StillRequired(student_id, degree_id) ==
    {c \in courses : <<c, degree_id>> \in requiredFor}
    \ {c \in courses : <<[key |-> "student_id", sid |-> student_id], c>> \in hasCompleted}

\* C5: degree_topological_sort returns None exactly when the prerequisite
\* graph restricted to the given set has a cycle; plan_degree then returns a
\* null recommended_sequence, remaining_courses = sorted(required - completed)
\* and the cycle warning, and in every other outcome no warning key.
C5_CycleSentinel ==
    /\ SortCalled =>
          (response = None <=> Cyclic(StoredPrereqs, Range(request.courses)))
    /\ Planned =>
          LET missing == StillRequired(request.student_id, request.degree_id)
          IN  /\ Range(response.remaining_courses) = missing
              /\ Ascending(response.remaining_courses)
              /\ IF Cyclic(StoredPrereqs, missing)
                 THEN /\ response.recommended_sequence = None
                      /\ "warning" \in DOMAIN response
                      /\ response.warning = "Cycle detected in degree requirements"
                 ELSE /\ "warning" \notin DOMAIN response
                      /\ response.recommended_sequence # None

\* a plan for three remaining courses, two of them on a cycle
C5_Witness ==
    /\ Planned
    /\ Len(response.remaining_courses) = 3
    /\ preRequires = {<<"CS101", "CS102">>, <<"CS102", "CS101">>}
    /\ response.recommended_sequence = None
    /\ "warning" \in DOMAIN response

OrdersCalled == request.op = "all_topological_orders"

\* the permutations of the graph's courses with every course after all of
\* its prerequisites
TopologicalPermutations(graph) ==
    {p \in Perms(Range(graph.keys)) :
        \A i \in 1..Len(p) : \A q \in graph.pre[p[i]] : \E j \in 1..(i - 1) : p[j] = q}

RECURSIVE Factorial(_)
Factorial(n) == IF n = 0 THEN 1 ELSE n * Factorial(n - 1)

\* C6: for an acyclic graph whose prerequisites are all keys of the graph,
\* all_topological_orders returns exactly the permutations that put every
\* course after its prerequisites, each once; n independent courses give n!
\* orderings and the chain CS101 before CS102 the single ordering.
C6_AllOrdersExactlyOnce ==
    (/\ OrdersCalled
     /\ \A c \in Range(request.graph.keys) : request.graph.pre[c] \subseteq Range(request.graph.keys)
     /\ ~Cyclic(request.graph.pre, Range(request.graph.keys))) =>
        /\ Range(response) = TopologicalPermutations(request.graph)
        /\ \A i, j \in 1..Len(response) : response[i] = response[j] => i = j
        /\ (\A c \in Range(request.graph.keys) : request.graph.pre[c] = {}) =>
              Len(response) = Factorial(Len(request.graph.keys))
        /\ (/\ Range(request.graph.keys) = {"CS101", "CS102"}
            /\ request.graph.pre["CS101"] = {}
            /\ request.graph.pre["CS102"] = {"CS101"}) =>
              response = <<<<"CS101", "CS102">>>>

\* four courses with one prerequisite relationship: half of the 24 orders
C6_Witness ==
    /\ OrdersCalled
    /\ Len(request.graph.keys) = 4
    /\ preRequires = {<<"CS101", "CS102">>}
    /\ Len(response) = 12

\* C7: every ordering all_topological_orders returns, for any graph, holds
\* every course of the graph exactly once.
C7_OrderingsAreComplete ==
    OrdersCalled =>
        \A i \in 1..Len(response) :
            /\ Len(response[i]) = Len(request.graph.keys)
            /\ Range(response[i]) = Range(request.graph.keys)

PathsCalled == request.op = "generate_graduation_paths"

\* C8: a student enrolled in a degree with nothing left to take gets
\* paths = [["Already graduated"]] with student_id and degree_id, no
\* missing_courses key, and neither build_graph nor all_topological_orders
\* runs; a student without a degree gets exactly {"error": "Student not found"}.
C8_SentinelAndNotFound ==
    PathsCalled =>
        LET node == [key |-> "student_id", sid |-> request.student_id]
            enrolled == node \in students /\ <<node, TheDegree>> \in enrolledIn
        IN  /\ ~enrolled => response = [error |-> "Student not found"]
            /\ (enrolled /\ StillRequired(request.student_id, TheDegree) = {}) =>
                  /\ response = [student_id |-> request.student_id,
                                 degree_id |-> TheDegree,
                                 paths |-> <<<<"Already graduated">>>>]
                  /\ "missing_courses" \notin DOMAIN response
                  /\ calls \cap {"build_graph", "all_topological_orders"} = {}

\* an enrolled student who completed the one required course
C8_Witness ==
    /\ PathsCalled
    /\ requiredFor # {}
    /\ <<[key |-> "student_id", sid |-> request.student_id], TheDegree>> \in enrolledIn
    /\ StillRequired(request.student_id, TheDegree) = {}
    /\ response.paths = <<<<"Already graduated">>>>

(***************************************************************************)
(* Properties of check_student_can_take.                                   *)
(***************************************************************************)
CanTakeChecked == request.op = "check_student_can_take"

\* C9 as stated: in every result, whatever the course and the student,
\* can_take is true exactly when missing is empty.
C9_CanTakeIffNothingMissing ==
    CanTakeChecked => (response.can_take <=> response.missing = <<>>)

\* C9 as amended: when course and student both exist (reason ok or
\* missing_prerequisites) can_take is true exactly when missing is empty;
\* with reason course_not_found or student_not_found can_take is false, also
\* when missing is empty; can_take is never true with a course missing.
C9_CanTakeIffNothingMissingWhenFound ==
    CanTakeChecked =>
        /\ response.reason \in {"ok", "missing_prerequisites"} =>
              (response.can_take <=> response.missing = <<>>)
        /\ response.reason \in {"course_not_found", "student_not_found"} =>
              ~response.can_take
        /\ response.can_take => response.missing = <<>>

\* a student who completed the one course required may take the course
C9_Witness ==
    /\ CanTakeChecked
    /\ response.reason = "ok"
    /\ response.required # <<>>
    /\ response.can_take
    /\ response.missing = <<>>

\* C10: exactly one reason code, decided in this order: course_not_found
\* when no Course has the code (required, completed, missing empty, the
\* student absent or not); student_not_found when the course exists and no
\* Student has the student_id (missing is the required list, can_take false);
\* otherwise missing is sorted(required - completed), and the reason is ok
\* when that is empty and missing_prerequisites when it is not.
C10_ReasonCodes ==
    CanTakeChecked =>
        LET course_exists == request.course_code \in courses
            student_exists ==
                [key |-> "student_id", sid |-> request.student_id] \in students
            difference == Range(response.required) \ Range(response.completed)
        IN  /\ response.reason \in {"course_not_found", "student_not_found",
                                    "ok", "missing_prerequisites"}
            /\ ~course_exists =>
                  /\ response.reason = "course_not_found"
                  /\ response.required = <<>>
                  /\ response.completed = <<>>
                  /\ response.missing = <<>>
            /\ (course_exists /\ ~student_exists) =>
                  /\ response.reason = "student_not_found"
                  /\ response.missing = response.required
                  /\ ~response.can_take
            /\ (course_exists /\ student_exists) =>
                  /\ Range(response.missing) = difference
                  /\ Ascending(response.missing)
                  /\ response.reason =
                        IF difference = {} THEN "ok" ELSE "missing_prerequisites"

\* an unknown student asking for a course with two requirements, listed in
\* the order the database returned them
C10_Witness ==
    /\ CanTakeChecked
    /\ response.reason = "student_not_found"
    /\ Len(response.required) = 2
    /\ ~Ascending(response.required)
    /\ response.missing = response.required

(***************************************************************************)
(* Properties of the eligibility service.                                  *)
(***************************************************************************)
\* the list keeps exactly the entries of source that satisfy keep, in order
RECURSIVE IsFiltered(_, _, _)
IsFiltered(result, source, dropped) ==
    IF source = <<>> THEN result = <<>>
    ELSE IF Head(source) \in dropped THEN IsFiltered(result, Tail(source), dropped)
    ELSE /\ result # <<>>
         /\ Head(result) = Head(source)
         /\ IsFiltered(Tail(result), Tail(source), dropped)

\* C11: compute_missing_prerequisites(required, completed) returns exactly
\* the entries of required that are not in completed, in required's order
\* (not re-sorted), and create_eligibility_response sets eligible to true
\* exactly when the missing list it is given is empty.
C11_MissingInRequiredOrder ==
    /\ request.op = "compute_missing_prerequisites" =>
          IsFiltered(response, request.course_prereqs, Range(request.completed_courses))
    /\ request.op = "create_eligibility_response" =>
          /\ response.eligible <=> request.missing = <<>>
          /\ response.missing_prerequisites = request.missing
          /\ response.student_id = request.student_id
          /\ response.course_id = request.course_id

\* two of three required courses are missing and come back in the order
\* given, which is not the alphabetical one
C11_Witness ==
    /\ request.op = "compute_missing_prerequisites"
    /\ request.course_prereqs = <<"CS103", "CS102", "CS101">>
    /\ request.completed_courses = <<"CS102">>
    /\ response = <<"CS103", "CS101">>

\* the student nodes carrying this id, whichever property holds it
StudentNodes(student_id) == {st \in students : st.sid = student_id}

\* the courses a student's nodes are joined to by HAS_COMPLETED
CompletedSet(student_id) ==
    {c \in courses : \E st \in StudentNodes(student_id) : <<st, c>> \in hasCompleted}

\* the transitive prerequisites of a course as the importer stores them
RequiredSet(course_id) == Upstream(StoredPrereqs, courses, course_id)

\* C12: for a course and a student whose completed set equals the course's
\* transitive prerequisite set, the eligibility check answers eligible with
\* nothing missing; with one required course taken out of the completed set
\* it answers not eligible with exactly that course missing.
C12_EligibilityRoundTrip ==
    (/\ request.op = "check_eligibility"
     /\ request.course_id \in courses
     /\ StudentNodes(request.student_id) # {}) =>
        LET required == RequiredSet(request.course_id)
            completed == CompletedSet(request.student_id)
        IN  /\ completed = required =>
                  /\ response.eligible
                  /\ response.missing_prerequisites = <<>>
            /\ \A r \in required :
                  completed = required \ {r} =>
                      /\ ~response.eligible
                      /\ response.missing_prerequisites = <<r>>

(***************************************************************************)
(* Properties of the course importer's row parser.                         *)
(***************************************************************************)
\* the number a PrerequisiteNumber text declares: its integer value, and zero
\* for a text that is absent, blank or not an integer
DeclaredCount(text) ==
    CASE text = "1"   -> 1
      [] text = " 2 " -> 2
      [] text = "3"   -> 3
      [] text = "4"   -> 4
      [] text = "-1"  -> -1
      [] OTHER        -> 0

\* the code a cell holds once stripped, "" for an absent or blank cell
CellCode(cell) ==
    CASE cell = "CS101"   -> "CS101"
      [] cell = " CS101 " -> "CS101"
      [] cell = "CS102 "  -> "CS102"
      [] OTHER            -> ""

\* C20: parse_prereqs_row reads only the columns 0 .. PrerequisiteNumber-1
\* (none when the number is absent, blank or not an integer), ignores blank
\* cells among them, and returns the other codes stripped, each once, in the
\* order of their first column; a code written only in a column at or beyond
\* PrerequisiteNumber is not returned.
C20_ParseReadsDeclaredColumns ==
    request.op = "parse_prereqs_row" =>
        LET row == request.row
            count == DeclaredCount(row.PrerequisiteNumber)
            read == {i \in 1..MaxColumns : i <= count}
            first(code) == CHOOSE i \in read :
                               /\ CellCode(row.cells[i]) = code
                               /\ \A j \in read : CellCode(row.cells[j]) = code => i <= j
        IN  /\ Range(response) = {CellCode(row.cells[i]) : i \in read} \ {""}
            /\ \A a, b \in 1..Len(response) :
                  a < b => /\ response[a] # response[b]
                           /\ first(response[a]) < first(response[b])

\* two columns declared: the padded code of column 0 comes back stripped
\* and once, though column 1 repeats it, and the code of column 2 is left out
C20_Witness ==
    /\ request.op = "parse_prereqs_row"
    /\ request.row.PrerequisiteNumber = " 2 "
    /\ request.row.cells = <<" CS101 ", "CS101", "CS102 ">>
    /\ response = <<"CS101">>

(***************************************************************************)
(* Properties of the seeding scripts.                                      *)
(***************************************************************************)
\* the pairs <<P, C>> the rows of a course CSV declare: row C names
\* prerequisite P
Declared(csv) ==
    UNION {{<<p, Strip(csv[i].Course)>> : p \in Range(parse_prereqs_row(csv[i]))}
           : i \in {j \in 1..Len(csv) : Strip(csv[j].Course) # ""}}

\* C13: once the course importer has loaded a CSV row naming course C with
\* prerequisite P, the direct prerequisites the query service returns for C
\* contain P, and those it returns for P do not contain C unless the CSV
\* (which is all the graph holds) also names C as a prerequisite of P.
C13_ImportedPrerequisiteIsReturned ==
    [][(/\ script.op = "seed_data"
        /\ script.status = "done"
        /\ Idle
        /\ request'.op = "get_course_prereqs"
        /\ ~request'.all) =>
           \A e \in Declared(script.input.rows) :
              /\ request'.course_code = e[2] =>
                    e[1] \in Range(response'.prerequisites)
              /\ (/\ request'.course_code = e[1]
                  /\ preRequires = Declared(script.input.rows)
                  /\ <<e[2], e[1]>> \notin Declared(script.input.rows)) =>
                    e[2] \notin Range(response'.prerequisites)]_vars

\* C17: a seeding script that has run to its end, run again on the same
\* files to its end, leaves the graph as its previous run left it: the same
\* nodes, properties and relationships, and one copy of each.
C17_SeedingIsIdempotent ==
    (/\ script.op \in SeedOps
     /\ script.status = "done"
     /\ script.runs > 1) =>
        /\ Graph = script.left
        /\ \A k \in DOMAIN copies : copies[k] = 1

\* the supplemental importer has run twice on the same files, over courses
\* the course importer loaded: a student is enrolled and has a course done,
\* and an advanced course is offered
C17_Witness ==
    /\ script.op = "seed_extra_data"
    /\ script.status = "done"
    /\ script.runs > 1
    /\ preRequires # {}
    /\ enrolledIn # {}
    /\ hasCompleted # {}
    /\ <<"CS 401", <<"FALL", SeedFirstYear>>>> \in offeredIn
    /\ <<"CS 401", <<"SPRING", SeedFirstYear + 1>>>> \notin offeredIn

(***************************************************************************)
(* Properties of the prerequisite query service.                           *)
(***************************************************************************)
\* the codes found from the set S by adding, rounds times, the direct
\* prerequisites the service returns for every code found so far
RECURSIVE AddDirect(_, _)
AddDirect(S, rounds) ==
    IF rounds = 0 THEN S
    ELSE AddDirect(S \cup UNION {Range(get_direct_prerequisites(x)) : x \in S}, rounds - 1)

DuplicateFree(list) == \A i, j \in 1..Len(list) : i # j => list[i] # list[j]

\* C14: the list returned with all=true holds exactly the codes found by
\* starting from the direct prerequisites of the course and adding direct
\* prerequisites of the codes found until ten hops are covered; the list
\* returned with all=false is contained in it; each list is duplicate-free
\* and in alphabetical order.
C14_AllIsClosureOfDirect ==
    request.op = "get_course_prereqs" =>
        LET direct == get_direct_prerequisites(request.course_code)
            all == get_all_prerequisites(request.course_code)
        IN  /\ response.prerequisites = IF request.all THEN all ELSE direct
            /\ Range(all) = AddDirect(Range(direct), MaxHops - 1)
            /\ Range(direct) \subseteq Range(all)
            /\ DuplicateFree(response.prerequisites)
            /\ Ascending(response.prerequisites)

\* the whole chain is asked from its first course: the ten courses that
\* follow come back, and the twelfth, eleven hops away, does not
C14_Witness ==
    /\ request.op = "get_course_prereqs"
    /\ request.all
    /\ request.course_code = "CS101"
    /\ preRequires = ChainEdges
    /\ Len(response.prerequisites) = MaxHops
    /\ "CS111" \in Range(response.prerequisites)
    /\ "CS112" \notin Range(response.prerequisites)

\* the courses at the end of 1 to hops PRE_REQUIRES relationships followed
\* from a course of S
RECURSIVE Downstream(_, _)
Downstream(S, hops) ==
    IF hops = 0 THEN {}
    ELSE LET next == {q \in courses : \E p \in S : <<p, q>> \in preRequires}
         IN  next \cup Downstream(next, hops - 1)

\* C15: GET /courses/cycles returns at most limit entries; each names a
\* course, a path that starts and ends at it and follows a PRE_REQUIRES
\* relationship at every step, and the number of those steps, between one
\* and ten; the result is non-empty when limit >= 1 and some course reaches
\* itself within ten hops, and empty when no course reaches itself at all.
C15_CyclesAreRealAndLimited ==
    request.op = "get_cycles" =>
        LET cycles == response.cycles
            back(hops) == {c \in courses : c \in Downstream({c}, hops)}
        IN  /\ Len(cycles) <= request.limit
            /\ response.count = Len(cycles)
            /\ \A i \in 1..Len(cycles) :
                  LET path == cycles[i].path
                  IN  /\ path[1] = cycles[i].course
                      /\ path[Len(path)] = cycles[i].course
                      /\ \A k \in 1..(Len(path) - 1) :
                            <<path[k], path[k + 1]>> \in preRequires
                      /\ cycles[i].length = Len(path) - 1
                      /\ cycles[i].length \in 1..MaxHops
            /\ (request.limit >= 1 /\ back(MaxHops) # {}) => cycles # <<>>
            /\ back(Cardinality(courses)) = {} => cycles = <<>>

\* two entries are asked for where the tenth course leads back to the first
\* and another course names itself: a cycle of ten hops and one of a single
\* hop come back
C15_Witness ==
    /\ request.op = "get_cycles"
    /\ request.limit = 2
    /\ Len(response.cycles) = 2
    /\ response.cycles[1].length = MaxHops
    /\ response.cycles[2].path = <<"CS105", "CS105">>

(***************************************************************************)
(* Properties of the API as a whole.                                       *)
(***************************************************************************)
\* C16: no request served by the API changes the graph: the nodes, the
\* relationships and their properties are after the request what they were
\* before it, and no query sent while serving a route has a writing clause;
\* those sent through Neo4jClient.query run in a read transaction.
C16_ApiLeavesGraphUnchanged ==
    [][request'.op \notin SeedOps =>
          /\ db' = db
          /\ request'.op = "serve" =>
                \A sent \in calls' :
                   /\ sent.clauses \cap WritingClauses = {}
                   /\ sent.via = "Neo4jClient.query" => sent.mode = "execute_read"]_vars

\* the schedule optimizer, which runs its queries in auto-commit
\* transactions, has served a request on a database holding edges and a
\* student with a completed course
C16_Witness ==
    /\ request.op = "serve"
    /\ request.route = "schedule_optimize"
    /\ request.failure = "none"
    /\ response.status_code = 200
    /\ \E sent \in calls : sent.mode = "auto-commit"
    /\ preRequires # {}
    /\ hasCompleted # {}
    /\ copies = StoredOnce

\* C18: whenever the database fails while a route is served, the client
\* receives status 500 with a JSON body whose detail holds the message of
\* the error raised.
C18_EveryRouteAnswersJsonDetail ==
    (request.op = "serve" /\ request.failure # "none" /\ calls # {}) =>
        /\ response.status_code = 500
        /\ response.media_type = "application/json"
        /\ exc_message(request.failure) \in Range(response.detail)

\* C19: a call of Neo4jClient.query during which the database fails raises
\* a RuntimeError whose message holds the message of the driver's exception,
\* and the session of a call is closed whether it fails or not.
C19_QueryWrapsEveryDriverError ==
    (request.op = "serve" /\ route_queries(request.route).via = "Neo4jClient.query") =>
        \A call \in calls :
           /\ call.session = "closed"
           /\ request.failure # "none" =>
                 /\ call.raised = "RuntimeError"
                 /\ exc_message(request.failure) \in Range(call.message)

(***************************************************************************)
(* Properties of the optimizer's sort and assignment steps.                *)
(***************************************************************************)
\* the position of a code in a list that holds it
PositionIn(list, c) == CHOOSE i \in 1..Len(list) : list[i] = c

\* the codes assigned before semester k of a schedule
TakenBefore(schedule, k) == UNION {CodesIn(schedule[j]) : j \in 1..(k - 1)}

\* C23: in every semester the courses assigned are taken from the
\* semester's candidate list in its order, and a candidate is passed over
\* while a later candidate is still added only when its own credits exceed
\* the credit cap.
C23_AssignedIsPrefixOfCandidates ==
    request.op = "_assign_courses_to_semesters" =>
        LET data == get_all_courses_with_prereqs
            cap == request.constraints.max_credits_per_semester
            semesters == get_semester_offerings(request.constraints.start_semester,
                                                request.constraints.target_semesters)
        IN  \A k \in 1..Len(response) :
                LET cands == courses_to_consider(
                                 request.sorted_courses, data, semesters[k],
                                 request.completed,
                                 request.completed \cup TakenBefore(response, k))
                    assigned == CodesIn(response[k])
                IN  \A i, j \in 1..Len(cands) :
                        (i < j /\ cands[i] \notin assigned /\ cands[j] \in assigned)
                            => data[cands[i]].credits > cap

\* the uncompleted prerequisites, as attached to the courses handed to the
\* sort, that are themselves among those courses
AttachedPrereqs == [c \in courses |-> get_all_courses_with_prereqs[c].prerequisites]

\* C24: the list _topological_sort returns holds every course handed to it
\* (the catalog courses not completed) exactly once; the courses that are on
\* a cycle of attached prerequisites or have such a course upstream are its
\* tail, and every other course comes after all of its attached
\* prerequisites that are in the list; without a cycle that is every course.
C24_KahnOrderAndLeftoverTail ==
    request.op = "_topological_sort" =>
        LET S == Range(request.courses)
            stuck == {c \in S : \/ c \in Upstream(AttachedPrereqs, S, c)
                                \/ \E p \in Upstream(AttachedPrereqs, S, c) :
                                      p \in Upstream(AttachedPrereqs, S, p)}
            n == Cardinality(S \ stuck)
        IN  /\ Range(response) = S
            /\ Len(response) = Cardinality(S)
            /\ S \cap request.completed = {}
            /\ courses \ request.completed = S
            /\ Range(SubSeq(response, 1, n)) = S \ stuck
            /\ ~Cyclic(AttachedPrereqs, S) => stuck = {}
            /\ \A c \in S \ stuck :
                  \A p \in AttachedPrereqs[c] \cap S :
                      PositionIn(response, p) < PositionIn(response, c)

\* two courses on a cycle end the list, after the one course that can be
\* sorted
C24_Witness ==
    /\ request.op = "_topological_sort"
    /\ Len(response) = 3
    /\ response[1] = "CS103"
    /\ <<"CS101", "CS102">> \in preRequires
    /\ <<"CS102", "CS101">> \in preRequires
    /\ request.completed = {}

\* C29: no course that is on a cycle of prerequisites among the courses the
\* student has not completed, or that has such a course among its
\* transitive prerequisites, is placed in any semester of the schedule
\* (prerequisites being the courses with a PRE_REQUIRES relationship into
\* the course, as the importer stores them).
C29_CyclicCoursesNeverAssigned ==
    Optimized =>
        LET S == courses \ response.completed_courses
            onCycle == {c \in S : c \in Upstream(StoredPrereqs, S, c)}
            blocked == onCycle \cup {c \in S : Upstream(StoredPrereqs, S, c) \cap onCycle # {}}
        IN  \A k \in 1..Len(response.schedule) :
                CodesIn(response.schedule[k]) \cap blocked = {}

(***************************************************************************)
(* Properties of the semester queries.                                     *)
(***************************************************************************)
\* the place of a seeded semester in calendar time
Chronological(id) == (CHOOSE s \in SemesterNodes : s.id = id).order

\* C28: the semesters returned for a start semester, by the optimizer's
\* query and by the semesters endpoint, are in strictly increasing calendar
\* order, at most as many as asked for, none earlier than the start
\* semester, and none at or after the start semester is left out before
\* the number asked for is reached.
C28_SemestersFromStartInOrder ==
    request.op \in {"get_available_semesters", "_get_semester_offerings"} =>
        LET ids == [k \in 1..Len(response.semesters) |-> response.semesters[k].id]
            start == Chronological(request.start_semester)
        IN  /\ \A i, j \in 1..Len(ids) :
                  i < j => Chronological(ids[i]) < Chronological(ids[j])
            /\ Len(ids) <= request.limit
            /\ \A i \in 1..Len(ids) : Chronological(ids[i]) >= start
            /\ \A s \in SemesterNodes :
                  (s.order >= start /\ s.id \notin Range(ids)) =>
                      /\ Len(ids) = request.limit
                      /\ \A i \in 1..Len(ids) : Chronological(ids[i]) < s.order

\* C25: for every course, the direct prerequisites the query service
\* returns, those the degree planner reads, and the prerequisites the
\* schedule optimizer attaches to the course are the same set of codes.
C25_ServicesReadSameDirection ==
    request.op = "direct_prerequisites" =>
        /\ Range(response.query_service) = response.degree_planner
        /\ response.degree_planner = response.schedule_optimizer

\* C26: for a student the services find (a Student node with the
\* student_id asked for) and a course that exists, the eligibility endpoint
\* and check_student_can_take agree, whatever order the database returns
\* the collected codes in: eligible equals can_take, and
\* missing_prerequisites is the list missing, code by code.
C26_EligibilityAgreesWithCanTake ==
    (/\ request.op = "check_eligibility"
     /\ [key |-> "student_id", sid |-> request.student_id] \in students
     /\ request.course_id \in courses) =>
        \A results \in can_take_rows(request.student_id, request.course_id) :
            LET answer == check_student_can_take(request.student_id, request.course_id,
                                                 results)
            IN  /\ response.eligible = answer.can_take
                /\ response.missing_prerequisites = answer.missing

\* a student who completed one of the courses reached is told by both that
\* two others are missing, one of them two hops away
C26_Witness ==
    /\ request.op = "check_eligibility"
    /\ request.student_id = TheStudent
    /\ ImportedStudent \in students
    /\ request.course_id = "CS101"
    /\ preRequires = {<<"CS101", "CS102">>, <<"CS102", "CS103">>, <<"CS101", "CS101">>}
    /\ hasCompleted = {<<ImportedStudent, "CS102">>}
    /\ response.missing_prerequisites = <<"CS101", "CS103">>
    /\ ~response.eligible

\* the courses in the levels of a sequence
InLevels(sequence) == UNION {Range(sequence[i]) : i \in 1..Len(sequence)}

\* the step-by-step runs return what the two functions return
LoopsReturnWhatTheFunctionsReturn ==
    /\ (request.op = "degree_topological_sort" /\ response.returned) =>
            response.result = degree_topological_sort(request.courses)
    /\ (request.op = "all_topological_orders" /\ response.returned) =>
            response.results = all_topological_orders(request.graph)

\* C30: degree_topological_sort has run at most as many passes of its loop
\* as it was given courses, every pass but a final one that found a cycle
\* having moved a non-empty level out of remaining; dfs() has at most as
\* many recursive calls in progress as the graph has courses, one for each
\* course placed, and when all_topological_orders returns the placed set
\* and the current order are empty again.
C30_LoopsAreBoundedAndUndone ==
    /\ request.op = "degree_topological_sort" =>
        /\ response.iterations <= Len(request.courses)
        /\ response.iterations =
              Len(response.sequence) + (IF response.result = None /\ response.returned THEN 1 ELSE 0)
        /\ \A i \in 1..Len(response.sequence) : response.sequence[i] # <<>>
        /\ response.remaining = Range(request.courses) \ InLevels(response.sequence)
        /\ Cardinality(response.remaining) + Len(response.sequence)
              <= Cardinality(Range(request.courses))
        /\ (response.returned /\ response.result # None) => response.remaining = {}
    /\ request.op = "all_topological_orders" =>
        /\ Len(response.frames) - 1 <= Len(request.graph.keys)
        /\ ~response.returned => Len(response.frames) - 1 = Len(response.order)
        /\ Cardinality(response.visited) = Len(response.order)
        /\ response.visited = Range(response.order)
        /\ response.returned =>
              response.visited = {} /\ response.order = <<>> /\ response.frames = <<>>

\* an enumeration over three courses that has returned with several
\* complete orderings recorded
C30_Witness ==
    /\ request.op = "all_topological_orders"
    /\ response.returned
    /\ Len(request.graph.keys) = 3
    /\ Len(response.results) > 1
    /\ \E i \in 1..Len(response.results) : Len(response.results[i]) = 3

\* the courses the analysis looks at: offered in the semester asked for and
\* not completed by the student
OfferedAndOpen ==
    {c \in courses :
        /\ <<c, request.semester_id>> \in offeredIn
        /\ <<[key |-> "id", sid |-> request.student_id], c>> \notin hasCompleted}

\* the codes a course reaches along PRE_REQUIRES, and those of them the
\* student has not completed
Required(c) == Downstream({c}, Cardinality(preRequires))
StillMissing(c) ==
    {q \in Required(c) : <<[key |-> "id", sid |-> request.student_id], q>> \notin hasCompleted}

\* 100 * (total - missing) / total rounded to the nearest integer, a half
\* rounded up
RoundedShare(total, missing) ==
    (200 * (total - missing) + total) \div (2 * total)

\* the score as the sentence gives it
RoundedScore(c) ==
    IF StillMissing(c) = {} \/ Required(c) = {} THEN 100
    ELSE RoundedShare(Cardinality(Required(c)), Cardinality(StillMissing(c)))

\* C21: every course returned by the next-available-courses analysis has
\* the score 100 when nothing it requires is missing, and otherwise 100
\* times the share of its required courses that are completed, rounded to
\* the nearest integer; the score is an integer from 0 to 100, and the
\* courses returned are those that score at least 50.
C21_ReadinessIsRoundedShare ==
    (request.op = "get_next_courses_with_analysis"
     /\ [key |-> "id", sid |-> request.student_id] \in students) =>
        /\ \A i \in 1..Len(response) :
              /\ response[i].readiness_score = RoundedScore(response[i].course_code)
              /\ response[i].readiness_score \in 0..100
              /\ response[i].readiness_score >= 50
        /\ {response[i].course_code : i \in 1..Len(response)}
              = {c \in OfferedAndOpen : RoundedScore(c) >= 50}

\* the score the code computes: the share cut down to its integer part
ReadinessIsTruncatedShare ==
    (request.op = "get_next_courses_with_analysis"
     /\ [key |-> "id", sid |-> request.student_id] \in students) =>
        /\ \A i \in 1..Len(response) :
              LET c == response[i].course_code
              IN  /\ response[i].readiness_score \in 50..100
                  /\ response[i].readiness_score =
                        IF StillMissing(c) = {} THEN 100
                        ELSE (100 * (Cardinality(Required(c)) - Cardinality(StillMissing(c))))
                                \div Cardinality(Required(c))
        /\ \A c \in OfferedAndOpen :
              (\E i \in 1..Len(response) : response[i].course_code = c)
              <=> 2 * Cardinality(StillMissing(c)) <= Cardinality(Required(c))

\* the keys the route table promises for the routes it names
DocumentedKeys(route) ==
    CASE route = "bottleneck_courses" -> {"bottleneck_courses", "total_found", "filters"}
      [] route = "recommendations"    -> {"recommendations", "total_recommendations"}
      [] OTHER                        -> {}

\* C22: a well-formed request to any route of the route table, the routes
\* under /api/advanced and /gds/pagerank among them, is answered by the
\* application with status 200 and a body holding the documented keys
\* (a request that names a course names one the database holds).
C22_EveryDocumentedRouteAnswers ==
    (request.op = "client_request" /\ request.course_code \in courses \cup {""}) =>
        /\ response.status_code = 200
        /\ DocumentedKeys(request.route) \subseteq response.keys

\* C27: once a call of a factory has returned an instance, every call that
\* begins afterwards returns that same instance, whichever callers were
\* racing through the first initialisation and whatever the environment
\* variables have become.
C27_FirstCallerWinsForever ==
    request.op = "factory" =>
        \A t \in Callers :
            (response.callers[t].pc = "returned" /\ response.callers[t].after # None)
                => response.callers[t].got = response.callers[t].after

\* callers that do not overlap with a construction share one instance,
\* built from the environment of the first call: when only one instance
\* was ever constructed, every call returned it
OneConstructionIsShared ==
    (request.op = "factory" /\ response.constructed = 1) =>
        \A t \in Callers :
            response.callers[t].pc = "returned" =>
                response.callers[t].got = response.cache

\* no call returns before an instance is cached, and a cached factory
\* never replaces the instance it holds
CacheIsSetBeforeAnyReturn ==
    request.op = "factory" =>
        /\ response.first # None => response.cache # None
        /\ \A t \in Callers : response.callers[t].pc = "returned" =>
                                 response.callers[t].got # None

\* with lru_cache the caller that stores also returns first, and the cache is
\* never replaced: a call that begins after a return gets that instance
CachedFactoryKeepsFirstInstance ==
    (request.op = "factory" /\ request.factory \in CachedFactories) =>
        /\ response.first # None => response.cache = response.first
        /\ \A t \in Callers :
              (response.callers[t].pc = "returned" /\ response.callers[t].after # None)
                  => response.callers[t].got = response.callers[t].after

====
